---- MODULE Spec2Model ----
(***************************************************************************)
(* Model of the contractor-extraction ETL (dags/extract_contratista_etl.py *)
(* and the upsert task of dags/procesar_txt_cursor_llm.py).                *)
(*                                                                         *)
(* The module holds ten specifications over one set of variables; each    *)
(* one drives a part of the program and leaves the other parts idle:       *)
(*   SpecNorm    the Normalizer, applied by generar_candidatos_contratista *)
(*               and again by pre_filtro                                   *)
(*   SpecChunks  dividir_en_chunks                                         *)
(*   SpecLLM     llm() with its loop over llm_chunk and fusionar_resultados*)
(*   SpecFiltro  pre_filtro's block isolation                              *)
(*   SpecValidar the ruc, telefono and mail rules of llm()                 *)
(*   SpecRazon   the razon_social rules of llm() and update_postgres       *)
(*   SpecReglas  generar_candidatos_contratista, the rule-based extractor  *)
(*   SpecFilter  filter_processed                                          *)
(*   SpecCorridas the DAG run after run over the same files                *)
(*   Spec        the DAG tasks that touch the contracts table              *)
(* Text is a sequence of one-character strings.  Python's None is the      *)
(* string None below.                                                      *)
(***************************************************************************)
EXTENDS Integers, Sequences, FiniteSets, TLC

VARIABLES
    \* Normalizer (SpecNorm)
    nz_pc, contenido, full_text, texto_norm,
    \* dividir_en_chunks (SpecChunks)
    dc_pc, dc_texto, dc_tamano, dc_chunks,
    \* llm() (SpecLLM)
    llm_pc,             \* where llm() is
    api_key,            \* whether LLM_API_KEY is set
    texto_len,          \* len(texto)
    total_chunks,       \* len(chunks)
    chunk_num,          \* i of the loop over the chunks
    intento,            \* intento of llm_chunk's retry loop
    n_pedidos,          \* generate_content calls made for this chunk
    ultimo,             \* how the last generate_content call ended
    en_vuelo,           \* chunk numbers with a request in flight
    resultado_parcial,  \* what llm_chunk returned
    resultado_final,    \* the accumulator
    parciales,          \* history: what llm_chunk returned for chunks 1..k
    fallidos,           \* history: chunks that llm_chunk gave up on
    resultado,          \* what llm() returns
    \* pre_filtro (SpecFiltro)
    pf_pc,                \* where pre_filtro is
    pf_raw_len,           \* len(texto)
    pf_len,               \* len(texto_norm)
    pf_patron,            \* index in patrones_clave of the pattern being searched
    pf_desde,             \* where finditer goes on for that pattern
    pf_hallados,          \* history: the matches found, <<pattern, start>>
    bloques_encontrados,  \* list of <<inicio, fin>>
    bloques_fusionados,   \* list of <<inicio, fin>>
    texto_filtrado_len,   \* length of the string returned
    \* the contracts table and the tasks that write it (Spec)
    tabla,                \* public.sync_contratos: codigo_proceso -> row
    available_columns,    \* the columns the table has
    up_pc,                \* per update_postgres task: where it is
    file_data,            \* per task: the argument
    conn,                 \* per task: "none", "open" or "closed"
    conn_intento,         \* per task: the connection attempt
    set_clauses,          \* per task: column -> value of the UPDATE
    update_status,        \* per task: the update_status returned
    update_reason,        \* per task: the update_reason returned
    n_updates,            \* history, per task: UPDATE statements executed
    excepcion,            \* per task: the exception the task ended with
    \* the ruc, telefono and mail rules of llm() and normalize_phone (SpecValidar)
    val_pc,               \* "entrada" before the rule is applied, "validado" after
    val_campo,            \* which rule: "ruc", "telefono", "mail" or "normalize_phone"
    val_dato,             \* the candidate: an Optional[str]
    val_resultado,        \* what the rule gives: an Optional[str]
    \* filter_processed (SpecFilter)
    fp_pc,                \* "start" before the call, "returned" after
    file_paths,           \* the argument: what list_txt_files found
    batch_size,           \* BATCH_SIZE of this deployment
    fp_excepcion,         \* whether the except branch was taken
    archivos_pendientes,  \* the list returned
    \* repeated DAG runs (SpecCorridas)
    entregados,           \* history: the files filter_processed has returned so far
    \* generar_candidatos_contratista (SpecReglas)
    gc_pc,                \* the step of the function that comes next
    gc_doc,               \* what the searches of the function find in the block
    gc_i,                 \* index of the next strategy of the loop of line 943
    invocadas,            \* history: the strategies called, in order
    cand_razon,           \* Optional[str]
    cand_representante,   \* Optional[str]
    cand_ruc,             \* list of texts
    cand_mails,           \* list of texts
    cand_tels,            \* list of texts
    cand_dir,             \* an address
    cand_dom,             \* an address
    scored                \* the scored 13-digit sequences after the sort

nzVars == <<nz_pc, contenido, full_text, texto_norm>>
dcVars == <<dc_pc, dc_texto, dc_tamano, dc_chunks>>
llmVars == <<llm_pc, api_key, texto_len, total_chunks, chunk_num, intento,
             n_pedidos, ultimo, en_vuelo, resultado_parcial, resultado_final,
             parciales, fallidos, resultado>>
pfVars == <<pf_pc, pf_raw_len, pf_len, pf_patron, pf_desde, pf_hallados,
            bloques_encontrados, bloques_fusionados, texto_filtrado_len>>
upVars == <<tabla, available_columns, up_pc, file_data, conn, conn_intento,
            set_clauses, update_status, update_reason, n_updates, excepcion>>
valVars == <<val_pc, val_campo, val_dato, val_resultado>>
fpVars == <<fp_pc, file_paths, batch_size, fp_excepcion, archivos_pendientes>>
crVars == <<entregados>>
gcVars == <<gc_pc, gc_doc, gc_i, invocadas, cand_razon, cand_representante, cand_ruc, cand_mails, cand_tels, cand_dir, cand_dom, scored>>
vars == <<nzVars, dcVars, llmVars, pfVars, upVars, valVars, fpVars, crVars, gcVars>>

\* what each part of the program leaves alone
notNzVars == <<dcVars, llmVars, pfVars, upVars, valVars, fpVars, crVars, gcVars>>
notDcVars == <<nzVars, llmVars, pfVars, upVars, valVars, fpVars, crVars, gcVars>>
notLlmVars == <<nzVars, dcVars, pfVars, upVars, valVars, fpVars, crVars, gcVars>>
notPfVars == <<nzVars, dcVars, llmVars, upVars, valVars, fpVars, crVars, gcVars>>
notUpVars == <<nzVars, dcVars, llmVars, pfVars, valVars, fpVars, crVars, gcVars>>
notValVars == <<nzVars, dcVars, llmVars, pfVars, upVars, fpVars, crVars, gcVars>>
\* filter_processed reads the table and writes nothing
notFpVars == <<nzVars, dcVars, llmVars, pfVars, upVars, valVars, crVars, gcVars>>
notGcVars == <<nzVars, dcVars, llmVars, pfVars, upVars, valVars, fpVars, crVars>>

None == "<None>"

Min(a, b) == IF a < b THEN a ELSE b
Max(a, b) == IF a > b THEN a ELSE b

\* All sequences over S of length 0..n.
SeqsUpTo(S, n) == UNION {[1..k -> S] : k \in 0..n}

(***************************************************************************)
(* Normalizer                                                              *)
(***************************************************************************)
CR == "\r"
TAB == "\t"
SP == " "
NL == "\n"

\* str.replace(c, "")
RemoveChar(s, c) == SelectSeq(s, LAMBDA x : x # c)

\* str.replace(c, d) for single characters
ReplaceChar(s, c, d) == [i \in 1..Len(s) |-> IF s[i] = c THEN d ELSE s[i]]

\* The positions of s that satisfy Keep(i), in order, as a sequence.
RECURSIVE KeepFrom(_, _, _)
KeepFrom(s, keep, i) ==
    IF i > Len(s) THEN <<>>
    ELSE (IF i \in keep THEN <<s[i]>> ELSE <<>>) \o KeepFrom(s, keep, i + 1)

\* re.sub(r"[ \t]+", " ", s): every maximal run of blanks becomes one space.
CollapseBlanks(s) ==
    LET blank(i) == s[i] \in {SP, TAB}
        keep == {i \in 1..Len(s) : ~blank(i) \/ i = 1 \/ ~blank(i - 1)}
        t == [i \in 1..Len(s) |-> IF blank(i) THEN SP ELSE s[i]]
    IN  KeepFrom(t, keep, 1)

\* re.sub(r"\n{3,}", "\n\n", s): every maximal run of three or more newlines
\* becomes two newlines.
CollapseNewlines(s) ==
    LET keep == {i \in 1..Len(s) :
                    ~(s[i] = NL /\ i > 2 /\ s[i - 1] = NL /\ s[i - 2] = NL)}
    IN  KeepFrom(s, keep, 1)

\* the same rules with the carriage returns removed last
NormalizarOrdenInvertido(texto) ==
    RemoveChar(CollapseNewlines(CollapseBlanks(ReplaceChar(texto, TAB, SP))), CR)

\* pre_filtro, lines 290-292 (the same three statements open
\* generar_candidatos_contratista, lines 582-584).
Normalizar(texto) ==
    CollapseNewlines(CollapseBlanks(ReplaceChar(RemoveChar(texto, CR), TAB, SP)))

MaxNormLen == 6
NormAlphabet == {"a", SP, TAB, CR, NL}

NzInit ==
    /\ nz_pc = "start"
    /\ contenido \in SeqsUpTo(NormAlphabet, MaxNormLen)
    /\ full_text = <<>>
    /\ texto_norm = <<>>

NzIdle ==
    /\ nz_pc = "idle"
    /\ contenido = <<>>
    /\ full_text = <<>>
    /\ texto_norm = <<>>

\* generar_candidatos_contratista normalizes its input ...
NzGenerarCandidatos ==
    /\ UNCHANGED notNzVars
    /\ nz_pc = "start"
    /\ full_text' = Normalizar(contenido)
    /\ nz_pc' = "full_text"
    /\ UNCHANGED <<contenido, texto_norm>>

\* ... and hands it to aislar_bloque_contratista = pre_filtro, which
\* normalizes what it is given once more.
NzPreFiltro ==
    /\ UNCHANGED notNzVars
    /\ nz_pc = "full_text"
    /\ texto_norm' = Normalizar(full_text)
    /\ nz_pc' = "texto_norm"
    /\ UNCHANGED <<contenido, full_text>>

(***************************************************************************)
(* dividir_en_chunks                                                       *)
(***************************************************************************)
\* range(start, stop, step) as the sequence of its values
RECURSIVE Range(_, _, _)
Range(start, stop, step) ==
    IF start >= stop THEN <<>>
    ELSE <<start>> \o Range(start + step, stop, step)

\* texto[i:j] with 0 <= i <= j (Python clamps j to len)
Slice(texto, i, j) == SubSeq(texto, i + 1, Min(j, Len(texto)))

\* the slice one character short
DividirMalTroceado(texto, tamano) ==
    LET starts == Range(0, Len(texto), tamano)
    IN  [k \in 1..Len(starts) |-> Slice(texto, starts[k], starts[k] + tamano - 1)]

dividir_en_chunks(texto, tamano) ==
    LET starts == Range(0, Len(texto), tamano)
    IN  [k \in 1..Len(starts) |-> Slice(texto, starts[k], starts[k] + tamano)]

\* the size llm() passes, line 1906
CHUNK_SIZE == 15000

MaxTextLen == 5
MaxTamano == 3
\* the text of the spec's example
LongTextLen == 40000
ChunkAlphabet == {"a", "b"}
LongText == [i \in 1..LongTextLen |-> IF i % 7 = 0 THEN "b" ELSE "a"]

DcInit ==
    /\ dc_pc = "start"
    /\ dc_texto \in SeqsUpTo(ChunkAlphabet, MaxTextLen) \cup {LongText}
    /\ dc_tamano = 0
    /\ dc_chunks = <<>>

DcIdle ==
    /\ dc_pc = "idle"
    /\ dc_texto = <<>>
    /\ dc_tamano = 0
    /\ dc_chunks = <<>>

\* a direct call with an explicit size
DcDividir ==
    /\ UNCHANGED notDcVars
    /\ dc_pc = "start"
    /\ Len(dc_texto) <= MaxTextLen
    /\ \E n \in 1..MaxTamano :
        /\ dc_tamano' = n
        /\ dc_chunks' = dividir_en_chunks(dc_texto, n)
    /\ dc_pc' = "done"
    /\ UNCHANGED dc_texto

\* the call llm() makes, line 1906
DcLlmDividir ==
    /\ UNCHANGED notDcVars
    /\ dc_pc = "start"
    /\ dc_tamano' = CHUNK_SIZE
    /\ dc_chunks' = dividir_en_chunks(dc_texto, CHUNK_SIZE)
    /\ dc_pc' = "llm"
    /\ UNCHANGED dc_texto

(***************************************************************************)
(* fusionar_resultados, llm_chunk, llm                                     *)
(***************************************************************************)
CONTRATISTA_FIELDS ==
    {"razon_social", "representante", "ruc", "telefono", "mail", "domicilio"}

AllNone == [campo \in CONTRATISTA_FIELDS |-> None]

\* Python truthiness of an Optional[str]
Truthy(v) == v # None /\ v # ""

\* "v and v not in ['null', 'none', '']", the test of lines 1531 and 1535
TieneValor(v) == Truthy(v) /\ v \notin {"null", "none", ""}

\* the later chunk wins
FusionarUltimoGana(base, nuevo) ==
    [campo \in CONTRATISTA_FIELDS |->
        IF TieneValor(nuevo[campo]) THEN nuevo[campo] ELSE base[campo]]

fusionar_resultados(base, nuevo) ==
    [campo \in CONTRATISTA_FIELDS |->
        IF ~TieneValor(base[campo]) /\ TieneValor(nuevo[campo])
        THEN nuevo[campo]
        ELSE base[campo]]

max_retries_5 == 5
max_retries == 3

\* "for intento in range(max_retries)"
HayIntento(n) == n < max_retries
\* "if intento < max_retries - 1: continue"
QuedanReintentos(n) == n < max_retries - 1

\* What a chunk's response can hold.  Chunk k's genuine values carry k, so
\* that the accumulator shows which chunk a value came from; Xk is a value
\* the final validation rejects.
ValorDe(k) == <<"V1", "V2", "V3", "V4">>[k]
RechazadoDe(k) == <<"X1", "X2", "X3", "X4">>[k]
ValoresCrudos(k) == {"", "null", "NULL", ValorDe(k), RechazadoDe(k)}

\* the dictionaries llm_chunk builds from a parsed response (lines 1726-1733):
\* nothing, everything, or one field alone
Respuestas(k) ==
    {AllNone, [campo \in CONTRATISTA_FIELDS |-> ValorDe(k)]}
    \cup {[AllNone EXCEPT ![campo] = v] :
            campo \in CONTRATISTA_FIELDS, v \in ValoresCrudos(k)}

\* str(v).lower() on the values above
Lower(v) == IF v = "NULL" THEN "null" ELSE v

\* The final validation of llm(), lines 1977-2077, on the values above: a
\* value is dropped when it is falsy, spells null/none in any case, or is
\* rejected by the field's validator; a genuine value is kept.
ValidarCampo(v) ==
    IF ~Truthy(v) \/ Lower(v) \in {"null", "none", ""} THEN None
    ELSE IF v \in {RechazadoDe(k) : k \in 1..4} THEN None
    ELSE v

\* how one generate_content call can end
\* a blocked response read like any other
FinesConTextoYBloqueo == {"stop", "max_tokens", "safety"}
FinesConTexto == {"stop", "max_tokens"}
FinesSinDato == {"safety", "error_texto"}
FallosReintentables == {"vacia", "rate_limit", "timeout"}
Fines == FinesConTexto \cup FinesSinDato \cup FallosReintentables \cup {"otro_error"}

\* the texts llm() is run on: none, one chunk, two, three
TextLens == {0, 1, CHUNK_SIZE, CHUNK_SIZE + 1, LongTextLen}

LlmInit ==
    /\ llm_pc = "start"
    /\ api_key \in BOOLEAN
    /\ texto_len \in TextLens
    /\ total_chunks = 0
    /\ chunk_num = 0
    /\ intento = 0
    /\ n_pedidos = 0
    /\ ultimo = None
    /\ en_vuelo = {}
    /\ resultado_parcial = AllNone
    /\ resultado_final = AllNone
    /\ parciales = <<>>
    /\ fallidos = {}
    /\ resultado = AllNone

LlmIdle ==
    /\ llm_pc = "idle"
    /\ api_key = FALSE
    /\ texto_len = 0
    /\ total_chunks = 0
    /\ chunk_num = 0
    /\ intento = 0
    /\ n_pedidos = 0
    /\ ultimo = None
    /\ en_vuelo = {}
    /\ resultado_parcial = AllNone
    /\ resultado_final = AllNone
    /\ parciales = <<>>
    /\ fallidos = {}
    /\ resultado = AllNone

\* lines 1816-1818: no key, AirflowSkipException
LlmSinApiKey ==
    /\ UNCHANGED notLlmVars
    /\ llm_pc = "start"
    /\ ~api_key
    /\ llm_pc' = "skip"
    /\ UNCHANGED <<api_key, texto_len, total_chunks, chunk_num, intento,
                   n_pedidos, ultimo, en_vuelo, resultado_parcial,
                   resultado_final, parciales, fallidos, resultado>>

\* lines 1906-1923: split the text, reset the accumulator, enter the loop
LlmDividir ==
    /\ UNCHANGED notLlmVars
    /\ llm_pc = "start"
    /\ api_key
    /\ total_chunks' = Len(Range(0, texto_len, CHUNK_SIZE))
    /\ resultado_final' = AllNone
    /\ chunk_num' = 1
    /\ intento' = 0
    /\ llm_pc' = IF total_chunks' = 0 THEN "validar" ELSE "chunk"
    /\ UNCHANGED <<api_key, texto_len, n_pedidos, ultimo, en_vuelo,
                   resultado_parcial, parciales, fallidos, resultado>>

\* the request is sent and the loop moves on to the next chunk without
\* waiting for the answer
LlmChunkPedirSinEsperar ==
    /\ UNCHANGED notLlmVars
    /\ llm_pc = "chunk"
    /\ chunk_num <= total_chunks
    /\ en_vuelo' = en_vuelo \cup {chunk_num}
    /\ n_pedidos' = n_pedidos + 1
    /\ chunk_num' = chunk_num + 1
    /\ llm_pc' = IF chunk_num = total_chunks THEN "espera" ELSE "chunk"
    /\ UNCHANGED <<api_key, texto_len, total_chunks, intento,
                   ultimo, resultado_parcial, resultado_final, parciales,
                   fallidos, resultado>>

\* lines 1597-1601: model.generate_content for the current chunk
LlmChunkPedir ==
    /\ UNCHANGED notLlmVars
    /\ llm_pc = "chunk"
    /\ HayIntento(intento)
    /\ chunk_num <= total_chunks
    /\ en_vuelo' = en_vuelo \cup {chunk_num}
    /\ n_pedidos' = n_pedidos + 1
    /\ llm_pc' = "espera"
    /\ UNCHANGED <<api_key, texto_len, total_chunks, chunk_num, intento,
                   ultimo, resultado_parcial, resultado_final, parciales,
                   fallidos, resultado>>

\* a chunk that llm_chunk gives up on raises instead of returning
DevuelveOLanza(r, falla) ==
    IF falla
    THEN /\ llm_pc' = "raised"
         /\ UNCHANGED <<intento, resultado_parcial, fallidos>>
    ELSE /\ resultado_parcial' = r
         /\ fallidos' = fallidos
         /\ llm_pc' = "fusionar"
         /\ UNCHANGED intento

\* llm_chunk returns r (to the loop of llm(), which merges it next)
Devuelve(r, falla) ==
    /\ resultado_parcial' = r
    /\ fallidos' = IF falla THEN fallidos \cup {chunk_num} ELSE fallidos
    /\ llm_pc' = "fusionar"
    /\ UNCHANGED intento

\* "continue": the next round of the retry loop, or its end (lines 1781-1791)
Reintenta ==
    IF HayIntento(intento + 1)
    THEN /\ intento' = intento + 1
         /\ llm_pc' = "chunk"
         /\ UNCHANGED <<resultado_parcial, fallidos>>
    ELSE Devuelve(AllNone, TRUE)

\* lines 1603-1779: the call ends; fin says how
LlmChunkRespuesta ==
    /\ UNCHANGED notLlmVars
    /\ llm_pc = "espera"
    /\ en_vuelo' = en_vuelo \ {chunk_num}
    /\ \E fin \in Fines :
        /\ ultimo' = fin
        /\ CASE fin \in FinesConTexto ->
                    \* a response with text, parsed into a dictionary
                    \E r \in Respuestas(chunk_num) : Devuelve(r, FALSE)
             [] fin \in FinesSinDato ->
                    \* finish_reason 3, or response.text that cannot be read
                    Devuelve(AllNone, TRUE)
             [] fin \in FallosReintentables ->
                    \* an empty response (1671-1687), a timeout, connection
                    \* or network error (1740-1753), a 429/quota error
                    \* (1759-1777)
                    IF QuedanReintentos(intento)
                    THEN Reintenta
                    ELSE Devuelve(AllNone, TRUE)
             [] OTHER ->
                    \* any other exception is raised again (1755, 1779) and
                    \* llm() turns it into Exception("Error en LLM") (2112)
                    /\ llm_pc' = "raised"
                    /\ UNCHANGED <<intento, resultado_parcial, fallidos>>
    /\ UNCHANGED <<api_key, texto_len, total_chunks, chunk_num, n_pedidos,
                   resultado_final, parciales, resultado>>

\* line 1939, and the loop's next round
LlmFusionar ==
    /\ UNCHANGED notLlmVars
    /\ llm_pc = "fusionar"
    /\ resultado_final' = fusionar_resultados(resultado_final, resultado_parcial)
    /\ parciales' = Append(parciales, resultado_parcial)
    /\ chunk_num' = chunk_num + 1
    /\ intento' = 0
    /\ n_pedidos' = 0
    /\ ultimo' = None
    /\ resultado_parcial' = AllNone
    /\ llm_pc' = IF chunk_num = total_chunks THEN "validar" ELSE "chunk"
    /\ UNCHANGED <<api_key, texto_len, total_chunks, en_vuelo, fallidos,
                   resultado>>

\* lines 1964-2107
LlmValidar ==
    /\ UNCHANGED notLlmVars
    /\ llm_pc = "validar"
    /\ resultado' = [campo \in CONTRATISTA_FIELDS |->
                        ValidarCampo(resultado_final[campo])]
    /\ llm_pc' = "returned"
    /\ UNCHANGED <<api_key, texto_len, total_chunks, chunk_num, intento,
                   n_pedidos, ultimo, en_vuelo, resultado_parcial,
                   resultado_final, parciales, fallidos>>

(***************************************************************************)
(* pre_filtro: the block isolator.  A text is described by its length and  *)
(* by where the trigger patterns match it; a block is <<inicio, fin>> and  *)
(* its text is texto_norm[inicio:fin], of length fin - inicio.             *)
(***************************************************************************)
\* Entries of patrones_clave the texts of the model match, in catalog order,
\* with the length of the text each one matches:
\*   "comparecen" (line 300), "contratista" (302), "sr. juan" (317),
\*   "ruc: " + 13 digits (321), "calle x" (339),
\*   "clausula octava. domicilio" (357)
\* (no two of them can match at the same place).
patrones_clave == <<
    [antes |-> 500, despues |-> 1500, largo |-> 10],
    [antes |-> 500, despues |-> 1500, largo |-> 11],
    [antes |-> 300, despues |-> 1000, largo |-> 8],
    [antes |-> 300, despues |-> 1200, largo |-> 18],
    [antes |-> 200, despues |-> 800, largo |-> 7],
    [antes |-> 400, despues |-> 1500, largo |-> 26] >>

\* line 390
FALLBACK_CHARS == 8000
\* lines 414-415
MAX_FILTRADO == 12000
\* line 400
DISTANCIA_FUSION == 500
\* len("\n\n---\n\n"), line 411
SEPARADOR_LEN == 7

\* lines 367-368
Inicio(p, pos) == Max(0, pos - patrones_clave[p].antes)
Fin(p, pos, len) == Min(len, pos + patrones_clave[p].largo + patrones_clave[p].despues)

\* line 374
Solapa(b, inicio, fin) == ~(fin < b[1] \/ inicio > b[2])

RemoveAt(seq, k) == SubSeq(seq, 1, k - 1) \o SubSeq(seq, k + 1, Len(seq))

MinOf(S) == CHOOSE x \in S : \A y \in S : x <= y

\* a window that overlaps a block of the list is taken as already covered
AgregarSinExtender(bloques, inicio, fin) ==
    IF \E k \in 1..Len(bloques) : Solapa(bloques[k], inicio, fin)
    THEN bloques
    ELSE Append(bloques, <<inicio, fin>>)
\* lines 371-385: the first block of the list that the window overlaps is
\* replaced by the union of both (appended at the end of the list) when the
\* window reaches beyond it; a window that overlaps none is appended
AgregarBloque(bloques, inicio, fin) ==
    LET solapados == {k \in 1..Len(bloques) : Solapa(bloques[k], inicio, fin)}
    IN  IF solapados = {} THEN Append(bloques, <<inicio, fin>>)
        ELSE LET k == MinOf(solapados)
                 b == bloques[k]
             IN  IF inicio < b[1] \/ fin > b[2]
                 THEN Append(RemoveAt(bloques, k),
                             <<Min(inicio, b[1]), Max(fin, b[2])>>)
                 ELSE bloques

\* list.sort(key=lambda x: x[0]), a stable sort (line 393)
RECURSIVE InsertSorted(_, _)
InsertSorted(sorted, b) ==
    IF sorted = <<>> THEN <<b>>
    ELSE IF Head(sorted)[1] <= b[1]
         THEN <<Head(sorted)>> \o InsertSorted(Tail(sorted), b)
         ELSE <<b>> \o sorted

RECURSIVE SortByInicio(_)
SortByInicio(bloques) ==
    IF bloques = <<>> THEN <<>>
    ELSE InsertSorted(SortByInicio(SubSeq(bloques, 1, Len(bloques) - 1)),
                      bloques[Len(bloques)])

\* only the blocks that overlap or touch are fused
RECURSIVE FusionarSoloSolapados(_, _)
FusionarSoloSolapados(fusionados, resto) ==
    IF resto = <<>> THEN fusionados
    ELSE LET b == Head(resto)
             n == Len(fusionados)
         IN  IF n > 0 /\ b[1] - fusionados[n][2] <= 0
             THEN FusionarSoloSolapados(
                      [fusionados EXCEPT ![n] = <<fusionados[n][1],
                                                  Max(b[2], fusionados[n][2])>>],
                      Tail(resto))
             ELSE FusionarSoloSolapados(Append(fusionados, b), Tail(resto))
\* lines 396-408
RECURSIVE FusionarCercanos(_, _)
FusionarCercanos(fusionados, resto) ==
    IF resto = <<>> THEN fusionados
    ELSE LET b == Head(resto)
             n == Len(fusionados)
         IN  IF n > 0 /\ b[1] - fusionados[n][2] < DISTANCIA_FUSION
             THEN FusionarCercanos(
                      [fusionados EXCEPT ![n] = <<fusionados[n][1],
                                                  Max(b[2], fusionados[n][2])>>],
                      Tail(resto))
             ELSE FusionarCercanos(Append(fusionados, b), Tail(resto))

RECURSIVE SumLens(_)
SumLens(bloques) ==
    IF bloques = <<>> THEN 0
    ELSE (Head(bloques)[2] - Head(bloques)[1]) + SumLens(Tail(bloques))

\* len(separator.join(...)), line 411
JoinLen(bloques) ==
    IF bloques = <<>> THEN 0
    ELSE SumLens(bloques) + SEPARADOR_LEN * (Len(bloques) - 1)

\* the slice keeps nothing
PrefixLenVacio(len, n) == 0
\* texto[:n]
PrefixLen(len, n) == Min(len, n)

\* the comparison and the slice disagree by one
TruncarDeMas(len) == IF len > MAX_FILTRADO THEN PrefixLen(len, MAX_FILTRADO + 1) ELSE len
\* lines 413-416
Truncar(len) == IF len > MAX_FILTRADO THEN PrefixLen(len, MAX_FILTRADO) ELSE len

MaxMatches == 6

\* <<len(texto), len(texto_norm)>>: the empty text, a text of carriage
\* returns only, a short text, one above the fallback size, a long one
TextosFiltro == {<<0, 0>>, <<3, 0>>, <<700, 650>>, <<9100, 9000>>, <<14000, 14000>>}

\* where a pattern may match
Posiciones == {100, 1500, 2610, 5119, 7629, 10140, 12650}

PfInit ==
    /\ pf_pc = "start"
    /\ \E t \in TextosFiltro : pf_raw_len = t[1] /\ pf_len = t[2]
    /\ pf_patron = 1
    /\ pf_desde = 0
    /\ pf_hallados = {}
    /\ bloques_encontrados = <<>>
    /\ bloques_fusionados = <<>>
    /\ texto_filtrado_len = 0

PfIdle ==
    /\ pf_pc = "idle"
    /\ pf_raw_len = 0
    /\ pf_len = 0
    /\ pf_patron = 1
    /\ pf_desde = 0
    /\ pf_hallados = {}
    /\ bloques_encontrados = <<>>
    /\ bloques_fusionados = <<>>
    /\ texto_filtrado_len = 0

\* lines 286-287
PfTextoVacio ==
    /\ UNCHANGED notPfVars
    /\ pf_pc = "start"
    /\ pf_raw_len = 0
    /\ texto_filtrado_len' = 0
    /\ pf_pc' = "vacio"
    /\ UNCHANGED <<pf_raw_len, pf_len, pf_patron, pf_desde, pf_hallados,
                   bloques_encontrados, bloques_fusionados>>

\* lines 289-295
PfNormalizar ==
    /\ UNCHANGED notPfVars
    /\ pf_pc = "start"
    /\ pf_raw_len > 0
    /\ pf_pc' = "buscar"
    /\ UNCHANGED <<pf_raw_len, pf_len, pf_patron, pf_desde, pf_hallados,
                   bloques_encontrados, bloques_fusionados, texto_filtrado_len>>

\* lines 365-385: the next match, of the current pattern further on in the
\* text or of a later pattern
PfMatch ==
    /\ UNCHANGED notPfVars
    /\ pf_pc = "buscar"
    /\ Cardinality(pf_hallados) < MaxMatches
    /\ \E p \in pf_patron..Len(patrones_clave), pos \in Posiciones :
        /\ p = pf_patron => pos >= pf_desde
        /\ pos + patrones_clave[p].largo <= pf_len
        /\ \A h \in pf_hallados : h[2] # pos
        /\ pf_patron' = p
        /\ pf_desde' = pos + patrones_clave[p].largo
        /\ pf_hallados' = pf_hallados \cup {<<p, pos>>}
        /\ bloques_encontrados' =
               AgregarBloque(bloques_encontrados, Inicio(p, pos), Fin(p, pos, pf_len))
    /\ UNCHANGED <<pf_pc, pf_raw_len, pf_len, bloques_fusionados,
                   texto_filtrado_len>>

\* lines 387-390
PfFallback ==
    /\ UNCHANGED notPfVars
    /\ pf_pc = "buscar"
    /\ bloques_encontrados = <<>>
    /\ texto_filtrado_len' = PrefixLen(pf_len, FALLBACK_CHARS)
    /\ pf_pc' = "fallback"
    /\ UNCHANGED <<pf_raw_len, pf_len, pf_patron, pf_desde, pf_hallados,
                   bloques_encontrados, bloques_fusionados>>

\* lines 392-424
PfUnir ==
    /\ UNCHANGED notPfVars
    /\ pf_pc = "buscar"
    /\ bloques_encontrados # <<>>
    /\ bloques_fusionados' = FusionarCercanos(<<>>, SortByInicio(bloques_encontrados))
    /\ texto_filtrado_len' = Truncar(JoinLen(bloques_fusionados'))
    /\ pf_pc' = "filtrado"
    /\ UNCHANGED <<pf_raw_len, pf_len, pf_patron, pf_desde, pf_hallados,
                   bloques_encontrados>>

(***************************************************************************)
(* The contracts table, update_postgres (extract_contratista_etl) and       *)
(* insercion (procesar_txt_cursor_llm).  Both DAGs name the same table,     *)
(* sync_contratos, keyed by codigo_proceso.                                 *)
(***************************************************************************)
Codigos == {"LICO-001", "SIE-002"}

\* the columns of the table the two tasks name
Columnas ==
    CONTRATISTA_FIELDS \cup
    {"updated_at", "fecha_actualizacion", "fecha_publicacion",
     "hash_contenido", "fuente_archivo", "metadata"}

\* the columns whose name contains "fecha", "updated" or "actualizacion"
ColumnasDeFecha == {"updated_at", "fecha_actualizacion", "fecha_publicacion"}

\* the columns the INSERT of insercion names (those of the model)
ColumnasInsercion ==
    {"fecha_actualizacion", "fecha_publicacion", "hash_contenido",
     "fuente_archivo", "metadata"}

\* the tables the tasks may find: every column; the table insercion fills
\* (no updated_at); a table with a date column only under another name and
\* without mail; a table with no date column at all
Esquemas ==
    { Columnas,
      Columnas \ {"updated_at"},
      {"razon_social", "ruc", "fecha_publicacion"},
      {"razon_social", "representante", "ruc", "telefono", "domicilio"} }

FilaNula == [col \in Columnas |-> None]

\* a row that already holds contractor data
FilaVieja(esquema) ==
    [col \in Columnas |->
        IF col \notin esquema THEN None
        ELSE IF col \in CONTRATISTA_FIELDS THEN "viejo"
        ELSE IF col = "fuente_archivo" THEN "viejo.txt"
        ELSE IF col = "hash_contenido" THEN "sha256:viejo"
        ELSE None]

\* the files of the mapped tasks, as filter_processed hands them on
Archivos ==
    { [file_name |-> "LICO-001.txt", codigo_proceso |-> "LICO-001"],
      [file_name |-> "SIE-002.txt", codigo_proceso |-> "SIE-002"] }

\* contratista_data: nothing found; every field found; a result whose
\* fields are blank, absent or refused by the checks of update_postgres
DatosContratista ==
    { AllNone,
      [razon_social |-> "la ACME S.A.", representante |-> "Ing. Juan Mora",
       ruc |-> "1790012345001", telefono |-> "0991234567",
       mail |-> "ventas@acme.ec", domicilio |-> "Av. Amazonas N34"],
      [razon_social |-> "Comparecen las partes",
       representante |-> "Juan Mora Gerente",
       ruc |-> "0990011223001", telefono |-> "  ",
       mail |-> "", domicilio |-> None] }

\* str.strip() on the values above
Strip(v) == IF v \in {"", "  "} THEN "" ELSE v

\* limpiar_razon_social on the values above (lines 1202-1244): the leading
\* article is removed, a result under 3 characters is None
limpiar_razon_social(razon) ==
    IF ~Truthy(razon) THEN None
    ELSE IF Strip(razon) = "" THEN None
    ELSE IF razon = "la ACME S.A." THEN "ACME S.A."
    ELSE razon

\* limpiar_nombre_persona on the values above (lines 1440-1483): the title
\* is removed, the words are capitalized
limpiar_nombre_persona(valor) ==
    IF ~Truthy(valor) THEN None
    ELSE IF Strip(valor) = "" THEN None
    ELSE IF valor = "Ing. Juan Mora" THEN "Juan Mora"
    ELSE valor

\* lines 2619-2634
RazonParaGuardar(razon_raw) ==
    LET razon_limpia == limpiar_razon_social(razon_raw)
    IN  IF ~Truthy(razon_raw) \/ ~Truthy(razon_limpia) THEN None
        ELSE IF razon_limpia = "Comparecen las partes" THEN None
        ELSE razon_limpia

\* lines 2637-2658
RepresentanteParaGuardar(representante_raw) ==
    LET representante_limpio == limpiar_nombre_persona(representante_raw)
    IN  IF ~Truthy(representante_raw) \/ ~Truthy(representante_limpio) THEN None
        ELSE IF representante_limpio = "Juan Mora Gerente" THEN None
        ELSE representante_limpio

\* datos_contratista after lines 2619-2658
DatosLimpios(datos) ==
    [datos EXCEPT !["razon_social"] = RazonParaGuardar(@),
                  !["representante"] = RepresentanteParaGuardar(@)]

\* a blank or absent value is written all the same
ConValorSiempre(valor) == TRUE
\* "value is None or (isinstance(value, str) and not value.strip())" negated,
\* lines 2590 and 2665
ConValor(valor) == valor # None /\ Strip(valor) # ""

\* lines 2603-2608
ClausulaDeFecha(columnas) ==
    IF "updated_at" \in columnas THEN {"updated_at"}
    ELSE IF "fecha_actualizacion" \in columnas THEN {"fecha_actualizacion"}
    ELSE {}

\* every field that has a value is named, whatever the table's columns
ColumnasDelSetSinEsquema(columnas, fd) ==
    ClausulaDeFecha(columnas)
    \cup {campo \in CONTRATISTA_FIELDS :
            ConValor(DatosLimpios(fd.contratista_data)[campo])}
    \cup (IF ConValor(fd.file_name) THEN {"fuente_archivo"} ELSE {})
    \cup {"metadata"}
\* the columns of the SET list before the last resort, lines 2603-2678
ColumnasDelSet(columnas, fd) ==
    ClausulaDeFecha(columnas)
    \cup {campo \in CONTRATISTA_FIELDS \cap columnas :
            ConValor(DatosLimpios(fd.contratista_data)[campo])}
    \cup (IF "fuente_archivo" \in columnas /\ ConValor(fd.file_name)
          THEN {"fuente_archivo"} ELSE {})
    \cup (IF "metadata" \in columnas THEN {"metadata"} ELSE {})

\* what each clause of the SET list assigns
ValorDelSet(col, fd) ==
    IF col \in ColumnasDeFecha THEN "NOW()"
    ELSE IF col = "metadata" THEN "llm_contratista"
    ELSE IF col = "fuente_archivo" THEN fd.file_name
    ELSE DatosLimpios(fd.contratista_data)[col]

\* the SET list without the last resort
ConstruirSinUltimoRecurso(columnas, fd, ultimo_recurso) ==
    [col \in ColumnasDelSet(columnas, fd) |-> ValorDelSet(col, fd)]
\* set_clauses with params, lines 2582-2707; ultimo_recurso is the date
\* column of the last resort, None when there is none
ConstruirSet(columnas, fd, ultimo_recurso) ==
    LET cols == ColumnasDelSet(columnas, fd)
        todas == IF cols = {} /\ ultimo_recurso # None THEN {ultimo_recurso} ELSE cols
    IN  [col \in todas |-> ValorDelSet(col, fd)]

\* jsonb concatenation of the metadata keys: old || new
MetadataConcat(old, new) ==
    IF old = None \/ old = new THEN new
    ELSE IF old = "llm_status+llm_contratista" THEN old
    ELSE "llm_status+llm_contratista"

\* the value a column holds after "SET col = expr"
ValorAsignado(col, old, expr) ==
    IF col = "metadata" THEN MetadataConcat(old, expr)
    ELSE IF expr = "NOW()" THEN "NOW"
    ELSE expr

\* the UPDATE without its WHERE: every row is written
EjecutarUpdateSinWhere(t, codigo, clauses) ==
    [c \in DOMAIN t |->
        [col \in Columnas |->
            IF col \in DOMAIN clauses
            THEN ValorAsignado(col, t[c][col], clauses[col])
            ELSE t[c][col]]]
\* UPDATE ... SET ... WHERE codigo_proceso = %s, lines 2730-2752
EjecutarUpdate(t, codigo, clauses) ==
    IF codigo \in DOMAIN t
    THEN [t EXCEPT ![codigo] =
            [col \in Columnas |->
                IF col \in DOMAIN clauses
                THEN ValorAsignado(col, t[codigo][col], clauses[col])
                ELSE t[codigo][col]]]
    ELSE t

\* the existence check that finds every code
ExisteSiempre(t, codigo) == TRUE
\* query_existe, lines 2547-2555
Existe(t, codigo) == codigo \in DOMAIN t

\* the mapped task instances that run at a time
Tareas == {"t1", "t2"}

\* line 2444
max_conn_retries == 3

ArchivoNulo == [file_name |-> None, codigo_proceso |-> None, contratista_data |-> AllNone]
SinClausulas == [col \in {} |-> None]

UpInit ==
    /\ available_columns \in Esquemas
    /\ \E claves \in SUBSET Codigos :
         tabla = [c \in claves |-> FilaVieja(available_columns)]
    /\ up_pc = [t \in Tareas |-> "idle"]
    /\ file_data = [t \in Tareas |-> ArchivoNulo]
    /\ conn = [t \in Tareas |-> "none"]
    /\ conn_intento = [t \in Tareas |-> 0]
    /\ set_clauses = [t \in Tareas |-> SinClausulas]
    /\ update_status = [t \in Tareas |-> None]
    /\ update_reason = [t \in Tareas |-> None]
    /\ n_updates = [t \in Tareas |-> 0]
    /\ excepcion = [t \in Tareas |-> None]

\* no update_postgres task is there
UpSinTareas ==
    /\ up_pc = [t \in Tareas |-> "off"]
    /\ file_data = [t \in Tareas |-> ArchivoNulo]
    /\ conn = [t \in Tareas |-> "none"]
    /\ conn_intento = [t \in Tareas |-> 0]
    /\ set_clauses = [t \in Tareas |-> SinClausulas]
    /\ update_status = [t \in Tareas |-> None]
    /\ update_reason = [t \in Tareas |-> None]
    /\ n_updates = [t \in Tareas |-> 0]
    /\ excepcion = [t \in Tareas |-> None]

UpIdle ==
    /\ available_columns = {}
    /\ tabla = [c \in {} |-> FilaNula]
    /\ up_pc = [t \in Tareas |-> "off"]
    /\ file_data = [t \in Tareas |-> ArchivoNulo]
    /\ conn = [t \in Tareas |-> "none"]
    /\ conn_intento = [t \in Tareas |-> 0]
    /\ set_clauses = [t \in Tareas |-> SinClausulas]
    /\ update_status = [t \in Tareas |-> None]
    /\ update_reason = [t \in Tareas |-> None]
    /\ n_updates = [t \in Tareas |-> 0]
    /\ excepcion = [t \in Tareas |-> None]

\* an exception leaves the connection as it is
TerminaSinCerrar(t, pc, status, reason) ==
    /\ up_pc' = [up_pc EXCEPT ![t] = pc]
    /\ update_status' = [update_status EXCEPT ![t] = status]
    /\ update_reason' = [update_reason EXCEPT ![t] = IF pc = "raised" THEN None ELSE reason]
    /\ excepcion' = [excepcion EXCEPT ![t] = IF pc = "raised" THEN reason ELSE None]
    /\ conn' = IF pc = "raised" THEN conn ELSE [conn EXCEPT ![t] = "closed"]
    /\ file_data' = IF pc = "raised" THEN [file_data EXCEPT ![t] = ArchivoNulo]
                    ELSE file_data
    /\ conn_intento' = [conn_intento EXCEPT ![t] = 0]
    /\ set_clauses' = [set_clauses EXCEPT ![t] = SinClausulas]
\* what a task leaves when it ends: the connection is closed by the
\* finally of lines 2833-2838, the result holds file_data and the status
\* (nothing when the task raises), the locals are gone
Termina(t, pc, status, reason) ==
    /\ up_pc' = [up_pc EXCEPT ![t] = pc]
    /\ update_status' = [update_status EXCEPT ![t] = status]
    /\ update_reason' = [update_reason EXCEPT ![t] = IF pc = "raised" THEN None ELSE reason]
    /\ excepcion' = [excepcion EXCEPT ![t] = IF pc = "raised" THEN reason ELSE None]
    /\ conn' = [conn EXCEPT ![t] = "closed"]
    /\ file_data' = IF pc = "raised" THEN [file_data EXCEPT ![t] = ArchivoNulo]
                    ELSE file_data
    /\ conn_intento' = [conn_intento EXCEPT ![t] = 0]
    /\ set_clauses' = [set_clauses EXCEPT ![t] = SinClausulas]

\* a mapped task instance is called with the file_data of one file,
\* lines 2438-2445
UpIniciar(t) ==
    /\ UNCHANGED notUpVars
    /\ up_pc[t] = "idle"
    /\ \E archivo \in Archivos, datos \in DatosContratista :
         file_data' = [file_data EXCEPT ![t] =
            [file_name |-> archivo.file_name,
             codigo_proceso |-> archivo.codigo_proceso,
             contratista_data |-> datos]]
    /\ up_pc' = [up_pc EXCEPT ![t] = "conectar"]
    /\ conn' = [conn EXCEPT ![t] = "none"]
    /\ conn_intento' = [conn_intento EXCEPT ![t] = 0]
    /\ set_clauses' = [set_clauses EXCEPT ![t] = SinClausulas]
    /\ update_status' = [update_status EXCEPT ![t] = None]
    /\ update_reason' = [update_reason EXCEPT ![t] = None]
    /\ n_updates' = [n_updates EXCEPT ![t] = 0]
    /\ excepcion' = [excepcion EXCEPT ![t] = None]
    /\ UNCHANGED <<tabla, available_columns>>

\* one turn of the connection loop, lines 2446-2494
UpConectar(t) ==
    /\ UNCHANGED notUpVars
    /\ up_pc[t] = "conectar"
    /\ \E fin \in {"ok", "connection refused", "otro"} :
         CASE fin = "ok" ->
                /\ conn' = [conn EXCEPT ![t] = "open"]
                /\ up_pc' = [up_pc EXCEPT ![t] = "columnas"]
                /\ UNCHANGED <<conn_intento, file_data, excepcion>>
           [] fin = "connection refused" /\ conn_intento[t] < max_conn_retries - 1 ->
                /\ conn_intento' = [conn_intento EXCEPT ![t] = @ + 1]
                /\ UNCHANGED <<conn, up_pc, file_data, excepcion>>
           [] OTHER ->
                /\ up_pc' = [up_pc EXCEPT ![t] = "raised"]
                /\ excepcion' = [excepcion EXCEPT ![t] = "OperationalError"]
                /\ file_data' = [file_data EXCEPT ![t] = ArchivoNulo]
                /\ conn_intento' = [conn_intento EXCEPT ![t] = 0]
                /\ UNCHANGED conn
    /\ UNCHANGED <<tabla, available_columns, set_clauses,
                   update_status, update_reason, n_updates>>

\* the SELECT on information_schema.columns, lines 2519-2545
UpColumnas(t) ==
    /\ UNCHANGED notUpVars
    /\ up_pc[t] = "columnas"
    /\ \E falla \in BOOLEAN :
         IF falla
         THEN Termina(t, "raised", None, "DatabaseError")
         ELSE /\ up_pc' = [up_pc EXCEPT ![t] = "existe"]
              /\ UNCHANGED <<conn, update_status, update_reason, file_data,
                             conn_intento, set_clauses, excepcion>>
    /\ UNCHANGED <<tabla, available_columns, n_updates>>

\* the missing row is inserted and the task goes on to its UPDATE
SiNoExisteInserta(t, clauses) ==
    /\ tabla' = [c \in DOMAIN tabla \cup {file_data[t].codigo_proceso} |->
                   IF c \in DOMAIN tabla THEN tabla[c] ELSE FilaNula]
    /\ set_clauses' = [set_clauses EXCEPT ![t] = clauses]
    /\ up_pc' = [up_pc EXCEPT ![t] = "update"]
    /\ UNCHANGED <<conn, update_status, update_reason, file_data, conn_intento,
                   excepcion>>
\* "if not existe", lines 2557-2566
SiNoExiste(t, clauses) ==
    /\ Termina(t, "returned", "skipped", "Registro no existe en BD")
    /\ UNCHANGED tabla

\* the existence check and, for a row that exists, the SET list,
\* lines 2547-2728
UpExiste(t) ==
    /\ UNCHANGED notUpVars
    /\ up_pc[t] = "existe"
    /\ \E falla \in BOOLEAN,
          ultimo_recurso \in
            IF available_columns \cap ColumnasDeFecha = {} THEN {None}
            ELSE available_columns \cap ColumnasDeFecha :
         LET clauses == ConstruirSet(available_columns, file_data[t], ultimo_recurso)
         IN  IF falla
             THEN Termina(t, "raised", None, "DatabaseError") /\ UNCHANGED tabla
             ELSE IF ~Existe(tabla, file_data[t].codigo_proceso)
             THEN SiNoExiste(t, clauses)
             ELSE IF DOMAIN clauses = {}
             THEN Termina(t, "raised", None, "RuntimeError") /\ UNCHANGED tabla
             ELSE /\ set_clauses' = [set_clauses EXCEPT ![t] = clauses]
                  /\ up_pc' = [up_pc EXCEPT ![t] = "update"]
                  /\ UNCHANGED <<conn, update_status, update_reason, file_data,
                                 conn_intento, tabla, excepcion>>
    /\ UNCHANGED <<available_columns, n_updates>>

\* the UPDATE and what follows it, lines 2730-2802
UpEjecutar(t) ==
    /\ UNCHANGED notUpVars
    /\ up_pc[t] = "update"
    /\ \E falla \in BOOLEAN :
         IF falla
         THEN Termina(t, "raised", None, "DatabaseError") /\ UNCHANGED <<tabla, n_updates>>
         ELSE LET codigo == file_data[t].codigo_proceso
                  rowcount == IF codigo \in DOMAIN tabla THEN 1 ELSE 0
              IN  /\ tabla' = EjecutarUpdate(tabla, codigo, set_clauses[t])
                  /\ n_updates' = [n_updates EXCEPT ![t] = @ + 1]
                  /\ IF rowcount = 0 /\ ~Existe(tabla', codigo)
                     THEN Termina(t, "returned", "skipped",
                                  "Registro no existe después del UPDATE")
                     ELSE Termina(t, "returned", "success", None)
    /\ UNCHANGED available_columns

\* what the tasks of procesar_txt_cursor_llm pass along: the file, the hash
\* of its content, and the publication date the LLM found in it
ArchivosInsercion ==
    { [file_name |-> "LICO-001.txt", codigo_proceso |-> "LICO-001",
       hash |-> "sha256:lico", fecha_publicacion |-> "2024-05-01"],
      [file_name |-> "SIE-002.txt", codigo_proceso |-> "SIE-002",
       hash |-> "sha256:sie", fecha_publicacion |-> None] }

\* verificacion_bd, lines 343-376: a file whose hash the row already holds
\* is skipped, and pre_filtro (lines 378-381) ends its chain of tasks
Skip(t, archivo) ==
    /\ archivo.codigo_proceso \in DOMAIN t
    /\ t[archivo.codigo_proceso]["hash_contenido"] = archivo.hash

\* insercion of procesar_txt_cursor_llm, lines 416-485: INSERT ... ON
\* CONFLICT (codigo_proceso) DO UPDATE, reached by the files verificacion_bd
\* does not skip.  A date column the INSERT does not
\* name is left NULL (por_defecto).
Insercion ==
    /\ UNCHANGED notUpVars
    /\ ColumnasInsercion \subseteq available_columns
    /\ \E archivo \in ArchivosInsercion :
         /\ ~Skip(tabla, archivo)
         /\ LET codigo == archivo.codigo_proceso
                fecha_publicacion == archivo.fecha_publicacion
                por_defecto == None
                nueva == [col \in Columnas |->
                           CASE col = "fecha_publicacion" -> fecha_publicacion
                             [] col = "hash_contenido" -> archivo.hash
                             [] col = "fuente_archivo" -> archivo.file_name
                             [] col = "metadata" -> "llm_status"
                             [] col = "fecha_actualizacion" -> por_defecto
                             [] col = "updated_at" /\ col \in available_columns -> por_defecto
                             [] OTHER -> None]
            IN  tabla' =
                  IF codigo \in DOMAIN tabla
                  THEN [tabla EXCEPT ![codigo] =
                          [@ EXCEPT !["fecha_publicacion"] =
                                       IF fecha_publicacion # None THEN fecha_publicacion ELSE @,
                                    !["hash_contenido"] = archivo.hash,
                                    !["fuente_archivo"] = archivo.file_name,
                                    !["metadata"] = MetadataConcat(@, "llm_status"),
                                    !["fecha_actualizacion"] = "NOW"]]
                  ELSE [c \in DOMAIN tabla \cup {codigo} |->
                          IF c = codigo THEN nueva ELSE tabla[c]]
    /\ UNCHANGED <<available_columns, up_pc, file_data, conn, conn_intento,
                   set_clauses, update_status, update_reason, n_updates, excepcion>>

(***************************************************************************)
(* The ruc, telefono and mail rules of llm() (lines 1995-2056), with       *)
(* only_digits, normalize_phone and es_correo_estado.  A text is a         *)
(* sequence of one-character strings; an Optional[str] is a record: some   *)
(* is FALSE for None, v is the text.                                       *)
(***************************************************************************)
Ausente == [some |-> FALSE, v |-> <<>>]
Texto(t) == [some |-> TRUE, v |-> t]

Digitos == {"0", "1", "2", "3", "4", "5", "6", "7", "8", "9"}
Minusculas == <<"a", "b", "c", "d", "e", "f", "g", "h", "i", "j", "k", "l", "m", "n", "o", "p", "q", "r", "s", "t", "u", "v", "w", "x", "y", "z">>
Mayusculas == <<"A", "B", "C", "D", "E", "F", "G", "H", "I", "J", "K", "L", "M", "N", "O", "P", "Q", "R", "S", "T", "U", "V", "W", "X", "Y", "Z">>
Blancos == {" ", "\t", "\n"}

\* \d and \D of the patterns
EsDigito(ch) == ch \in Digitos
EsLetraMinuscula(ch) == \E i \in 1..Len(Minusculas) : Minusculas[i] = ch

\* str.lower()
LowerChar(ch) ==
    IF \E i \in 1..Len(Mayusculas) : Mayusculas[i] = ch
    THEN Minusculas[CHOOSE i \in 1..Len(Mayusculas) : Mayusculas[i] = ch]
    ELSE ch
LowerTexto(t) == [i \in 1..Len(t) |-> LowerChar(t[i])]

\* str.strip()
RECURSIVE LStrip(_)
LStrip(t) == IF t # <<>> /\ Head(t) \in Blancos THEN LStrip(Tail(t)) ELSE t
RECURSIVE RStrip(_)
RStrip(t) ==
    IF t # <<>> /\ t[Len(t)] \in Blancos THEN RStrip(SubSeq(t, 1, Len(t) - 1)) ELSE t
StripTexto(t) == RStrip(LStrip(t))

EmpiezaCon(t, pre) == Len(t) >= Len(pre) /\ SubSeq(t, 1, Len(pre)) = pre
TerminaEn(t, suf) ==
    Len(t) >= Len(suf) /\ SubSeq(t, Len(t) - Len(suf) + 1, Len(t)) = suf
Desde(t, i) == SubSeq(t, i, Len(t))

\* "x and str(x).lower() not in ['null', 'none', '']" of llm()
HayCandidato(dato) ==
    /\ dato.some
    /\ dato.v # <<>>
    /\ LowerTexto(dato.v) \notin {<<"n", "u", "l", "l">>, <<"n", "o", "n", "e">>, <<>>}

\* line 174-175: re.sub(r"\D+", "", value or "")
only_digits(t) == SelectSeq(t, EsDigito)

\* re.match(r'^0{10,13}$', d) or the same with 1 or with 9 (lines 2001, 2014)
EsGenerico(d) ==
    /\ Len(d) >= 10
    /\ Len(d) <= 13
    /\ \E ch \in {"0", "1", "9"} : \A i \in 1..Len(d) : d[i] = ch

\* lines 1995-2006
ValidarRuc(ruc) ==
    IF ~HayCandidato(ruc) THEN Ausente
    ELSE LET ruc_digits == only_digits(ruc.v)
         IN  IF Len(ruc_digits) >= 10 /\ Len(ruc_digits) <= 13
             THEN IF EsGenerico(ruc_digits) THEN Ausente ELSE Texto(ruc_digits)
             ELSE Ausente

\* re.split(r'\s*[/,]\s*', s); every piece is stripped by the caller
RECURSIVE SplitPhones(_)
SplitPhones(t) ==
    IF \A i \in 1..Len(t) : t[i] \notin {"/", ","}
    THEN <<t>>
    ELSE LET i == CHOOSE i \in 1..Len(t) :
                    /\ t[i] \in {"/", ","}
                    /\ \A j \in 1..(i - 1) : t[j] \notin {"/", ","}
         IN  <<SubSeq(t, 1, i - 1)>> \o SplitPhones(Desde(t, i + 1))

\* t is \s*\d+
BlancosYDigitos(t) ==
    \E k \in 0..(Len(t) - 1) :
        /\ \A i \in 1..k : t[i] \in Blancos
        /\ \A i \in (k + 1)..Len(t) : EsDigito(t[i])

\* t is (?:ext\.?|x)\s*\d+ without regard to case
EsExtension(t) ==
    LET l == LowerTexto(t)
    IN  \/ EmpiezaCon(l, <<"e", "x", "t", ".">>) /\ BlancosYDigitos(Desde(l, 5))
        \/ EmpiezaCon(l, <<"e", "x", "t">>) /\ BlancosYDigitos(Desde(l, 4))
        \/ EmpiezaCon(l, <<"x">>) /\ BlancosYDigitos(Desde(l, 2))

\* re.sub(r"(?:ext\.?|x)\s*\d+$", "", phone, flags=re.IGNORECASE).strip():
\* the leftmost match that reaches the end is removed
QuitarExtension(t) ==
    LET donde == {i \in 1..Len(t) : EsExtension(Desde(t, i))}
    IN  IF donde = {} THEN StripTexto(t)
        ELSE LET i == CHOOSE i \in donde : \A j \in donde : i <= j
             IN  StripTexto(SubSeq(t, 1, i - 1))

\* re.sub(r"^\+593\s*", "0", phone)
Prefijo593(t) ==
    IF EmpiezaCon(t, <<"+", "5", "9", "3">>) THEN <<"0">> \o LStrip(Desde(t, 5)) ELSE t

\* the digits of one phone, lines 194-199 and 216-218
DigitosDeTelefono(t) == only_digits(Prefijo593(QuitarExtension(t)))

\* re.fullmatch(r"09\d{8}", digits)
EsCelular(d) ==
    /\ Len(d) = 10
    /\ d[1] = "0"
    /\ d[2] = "9"
    /\ \A i \in 3..10 : EsDigito(d[i])

\* the landline pattern without its leading 0[2-7]
EsFijoSinPrefijo(d) ==
    /\ Len(d) = 9
    /\ \A i \in 1..9 : EsDigito(d[i])
\* re.fullmatch(r"0[2-7]\d{7}", digits)
EsFijo(d) ==
    /\ Len(d) = 9
    /\ d[1] = "0"
    /\ d[2] \in {"2", "3", "4", "5", "6", "7"}
    /\ \A i \in 3..9 : EsDigito(d[i])

\* lines 178-224
normalize_phone(raw) ==
    IF ~raw.some \/ raw.v = <<>> THEN Ausente
    ELSE LET s == StripTexto(raw.v)
         IN  IF s = <<>> THEN Ausente
             ELSE LET phones == SplitPhones(s)
                      digits == [i \in 1..Len(phones) |->
                                    IF StripTexto(phones[i]) = <<>> THEN <<>>
                                    ELSE DigitosDeTelefono(StripTexto(phones[i]))]
                      celulares == {i \in 1..Len(phones) : EsCelular(digits[i])}
                      valid_phones == {i \in 1..Len(phones) :
                                          EsCelular(digits[i]) \/ EsFijo(digits[i])}
                      primero(I) == CHOOSE i \in I : \A j \in I : i <= j
                      entero == DigitosDeTelefono(s)
                 IN  IF celulares # {} THEN Texto(digits[primero(celulares)])
                     ELSE IF valid_phones # {} THEN Texto(digits[primero(valid_phones)])
                     ELSE IF EsCelular(entero) \/ EsFijo(entero) THEN Texto(entero)
                     ELSE Ausente

\* lines 2008-2019
ValidarTelefono(telefono) ==
    IF ~HayCandidato(telefono) THEN Ausente
    ELSE LET tel_normalizado == normalize_phone(telefono)
         IN  IF tel_normalizado.some
             THEN IF EsGenerico(tel_normalizado.v) THEN Ausente ELSE tel_normalizado
             ELSE Ausente

\* re.search of a literal
Contiene(t, sub) ==
    \E i \in 1..(Len(t) - Len(sub) + 1) : SubSeq(t, i, i + Len(sub) - 1) = sub

\* re.search(r"@.*\.gob\.ec$", t), and the like: an @ and, after it, the end
BuscaArrobaYFinal(t, final) ==
    \E i \in 1..Len(t) :
        /\ t[i] = "@"
        /\ TerminaEn(Desde(t, i + 1), final)
        /\ \A j \in (i + 1)..Len(t) : t[j] # "\n"

\* only the first pattern of dominios_estado
es_correo_estado_solo_gob(correo) ==
    /\ correo.some
    /\ correo.v # <<>>
    /\ BuscaArrobaYFinal(StripTexto(LowerTexto(correo.v)), <<".", "g", "o", "b", ".", "e", "c">>)
\* lines 100-135
es_correo_estado(correo) ==
    /\ correo.some
    /\ correo.v # <<>>
    /\ LET correo_lower == StripTexto(LowerTexto(correo.v))
       IN  \/ BuscaArrobaYFinal(correo_lower, <<".", "g", "o", "b", ".", "e", "c">>)
           \/ BuscaArrobaYFinal(correo_lower, <<".", "e", "d", "u", ".", "e", "c">>)
           \/ \E final \in {<<"@", "q", "u", "i", "t", "o", ".", "g", "o", "b", ".", "e", "c">>, <<"@", "g", "u", "a", "y", "a", "q", "u", "i", "l", ".", "g", "o", "b", ".", "e", "c">>,
                            <<"@", "a", "m", "b", "a", "t", "o", ".", "g", "o", "b", ".", "e", "c">>, <<"@", "c", "n", "e", ".", "g", "o", "b", ".", "e", "c">>,
                            <<"@", "e", "d", "u", "c", "a", "c", "i", "o", "n", ".", "g", "o", "b", ".", "e", "c">>, <<"@", "s", "a", "l", "u", "d", ".", "g", "o", "b", ".", "e", "c">>} :
                TerminaEn(correo_lower, final)
           \/ \E medio \in {<<"@", "m", "u", "n", "i", "c", "i", "p", "i", "o", ".">>, <<"@", "g", "a", "d", ".">>, <<"@", "p", "r", "e", "f", "e", "c", "t", "u", "r", "a", ".">>,
                            <<"@", "m", "i", "n", "i", "s", "t", "e", "r", "i", "o", ".">>} :
                Contiene(correo_lower, medio)

\* the classes of the format pattern of line 2026
EnLocal(ch) == EsLetraMinuscula(ch) \/ EsDigito(ch) \/ ch \in {".", "_", "%", "+", "-"}
EnDominio(ch) == EsLetraMinuscula(ch) \/ EsDigito(ch) \/ ch \in {".", "-"}

\* re.match(r'^[a-z0-9._%+-]+@[a-z0-9.-]+\.[a-z]{2,}$', t)
FormatoDeCorreo(t) ==
    \E a \in 2..Len(t) :
        /\ t[a] = "@"
        /\ \A i \in 1..(a - 1) : EnLocal(t[i])
        /\ \E p \in (a + 2)..(Len(t) - 2) :
              /\ t[p] = "."
              /\ \A i \in (a + 1)..(p - 1) : EnDominio(t[i])
              /\ \A i \in (p + 1)..Len(t) : EsLetraMinuscula(t[i])

\* correos_sospechosos, lines 2030-2039
EsSospechoso(t) ==
    \E inicio \in {<<"c", "o", "n", "t", "a", "c", "t", "o", "@">>, <<"i", "n", "f", "o", "@">>, <<"a", "d", "m", "i", "n", "@">>, <<"n", "o", "r", "e", "p", "l", "y", "@">>,
                   <<"n", "o", "-", "r", "e", "p", "l", "y", "@">>, <<"t", "e", "s", "t", "@">>, <<"e", "x", "a", "m", "p", "l", "e", "@">>, <<"e", "j", "e", "m", "p", "l", "o", "@">>} :
        EmpiezaCon(t, inicio)

\* lines 2021-2056
ValidarMail(correo) ==
    IF ~HayCandidato(correo) THEN Ausente
    ELSE LET correo_str == StripTexto(LowerTexto(correo.v))
         IN  IF ~FormatoDeCorreo(correo_str) THEN Ausente
             ELSE IF es_correo_estado(Texto(correo_str)) THEN Ausente
             ELSE IF EsSospechoso(correo_str) THEN Ausente
             ELSE Texto(correo_str)

\* the candidates: None, and what up to n of the pieces spell
RECURSIVE Combinaciones(_, _)
Combinaciones(partes, n) ==
    IF n = 0 THEN {<<>>}
    ELSE LET menos == Combinaciones(partes, n - 1)
         IN  menos \cup {p \o t : p \in partes, t \in menos}
Candidatos(partes, n) == {Ausente} \cup {Texto(t) : t \in Combinaciones(partes, n)}

MaxPartesRuc == 3
PartesRuc ==
    {<<"0">>,
     <<"0", "0", "0", "0">>,
     <<"0", "0", "0", "0", "0", "0", "0", "0", "0">>,
     <<"1", "1", "1", "1", "1", "1", "1", "1", "1", "1">>,
     <<"2", "2", "2", "2", "2", "2", "2", "2", "2", "2">>,
     <<"9", "9", "9", "9", "9", "9", "9", "9", "9">>,
     <<"9">>,
     <<"1", "7", "9", "0", "0", "1", "2", "3", "4">>,
     <<"5", "0", "0", "1">>,
     <<"-">>,
     <<"n", "u", "l", "l">>}

MaxPartesTel == 3
PartesTel ==
    {<<"0", "9", "9", "1", "2", "3", "4", "5", "6", "7">>,
     <<"0", "2", "2", "3", "4", "5", "6", "7", "8">>,
     <<"9", "9", "1", "2", "3", "4", "5", "6", "7">>,
     <<"+", "5", "9", "3">>,
     <<" ">>,
     <<"/">>,
     <<",">>,
     <<" ", "e", "x", "t", ".", " ", "1", "2">>,
     <<"X", "5">>,
     <<"1", "2", "3", "4", "5", "6", "7", "8", "9">>,
     <<"0", "8", "1", "2", "3", "4", "5", "6", "7", "8">>,
     <<"(", "0", "2", ")", " ">>}

MaxPartesMail == 4
PartesMail ==
    {<<"S", "e", "c", "r", "e", "t", "a", "r", "i", "a">>,
     <<"@">>,
     <<"q", "u", "i", "t", "o">>,
     <<"a", "c", "m", "e", ".", "e", "c">>,
     <<"g", "a", "d", ".">>,
     <<".", "g", "o", "b", ".", "e", "c">>,
     <<".", "e", "d", "u", ".", "e", "c">>,
     <<"g", "o", "b", ".", "e", "c">>}

ValInit ==
    /\ val_pc = "entrada"
    /\ val_campo \in {"ruc", "telefono", "mail", "normalize_phone"}
    /\ val_dato \in CASE val_campo = "ruc" -> Candidatos(PartesRuc, MaxPartesRuc)
                      [] val_campo = "mail" -> Candidatos(PartesMail, MaxPartesMail)
                      [] OTHER -> Candidatos(PartesTel, MaxPartesTel)
    /\ val_resultado = Ausente

ValIdle ==
    /\ val_pc = "idle"
    /\ val_campo = None
    /\ val_dato = Ausente
    /\ val_resultado = Ausente

Validado(campo, valor) ==
    /\ UNCHANGED notValVars
    /\ val_pc = "entrada"
    /\ val_campo = campo
    /\ val_resultado' = valor
    /\ val_pc' = "validado"
    /\ UNCHANGED <<val_campo, val_dato>>

\* resultado["ruc"] of llm()
LlmValidarRuc == Validado("ruc", ValidarRuc(val_dato))
\* resultado["telefono"] of llm()
LlmValidarTelefono == Validado("telefono", ValidarTelefono(val_dato))
\* resultado["mail"] of llm()
LlmValidarMail == Validado("mail", ValidarMail(val_dato))
\* a call of normalize_phone
NormalizePhone == Validado("normalize_phone", normalize_phone(val_dato))

(***************************************************************************)
(* The company-name rules: limpiar_razon_social and looks_like_employer,   *)
(* which llm() and update_postgres apply, and validar_razon_social.  The   *)
(* candidates are ASCII text, so the accented spellings of the patterns    *)
(* (CÍA, COMPAÑÍA, será, Cantón, Código) match none of them and are left   *)
(* out of the lists below.                                                 *)
(***************************************************************************)
\* re.sub(r"\s+", " ", t)
RECURSIVE ColapsarBlancos(_)
ColapsarBlancos(t) ==
    IF t = <<>> THEN <<>>
    ELSE IF Head(t) \in Blancos THEN <<" ">> \o ColapsarBlancos(LStrip(t))
    ELSE <<Head(t)>> \o ColapsarBlancos(Tail(t))

\* str.split()
RECURSIVE Palabras(_)
Palabras(t) ==
    LET u == LStrip(t)
        fin == IF \E i \in 1..Len(u) : u[i] \in Blancos
               THEN (CHOOSE i \in 1..Len(u) :
                        u[i] \in Blancos /\ \A j \in 1..(i - 1) : u[j] \notin Blancos) - 1
               ELSE Len(u)
    IN  IF u = <<>> THEN <<>>
        ELSE <<SubSeq(u, 1, fin)>> \o Palabras(Desde(u, fin + 1))

EsMayuscula(ch) == \E i \in 1..Len(Mayusculas) : Mayusculas[i] = ch
EsLetra(ch) == EsMayuscula(ch) \/ EsLetraMinuscula(ch)
\* \w of the patterns
EsDePalabra(ch) == EsLetra(ch) \/ EsDigito(ch) \/ ch = "_"

\* re.search(r"\bsub\b", t)
ContienePalabra(t, sub) ==
    \E i \in 1..(Len(t) - Len(sub) + 1) :
        /\ SubSeq(t, i, i + Len(sub) - 1) = sub
        /\ i = 1 \/ ~EsDePalabra(t[i - 1])
        /\ i + Len(sub) - 1 = Len(t) \/ ~EsDePalabra(t[i + Len(sub)])

\* prefijos_remover, lines 1223-1238, in lower case
prefijos_remover ==
    << <<"a", " ">>, <<"l", "a", " ">>, <<"e", "l", " ">>, <<"l", "o", "s", " ">>, <<"l", "a", "s", " ">>,
       <<"y", " ", "p", "o", "r", " ", "l", "a", " ", "o", "t", "r", "a", " ", "p", "a", "r", "t", "e", " ">>, <<"p", "o", "r", " ", "o", "t", "r", "a", " ", "p", "a", "r", "t", "e", " ">>, <<"y", " ", "p", "o", "r", " ", "o", "t", "r", "a", " ", "p", "a", "r", "t", "e", " ">>,
       <<"l", "a", " ", "e", "m", "p", "r", "e", "s", "a", " ">>, <<"e", "l", " ", "o", "f", "e", "r", "e", "n", "t", "e", " ">>, <<"l", "a", " ", "o", "f", "e", "r", "e", "n", "t", "e", " ">>,
       <<"e", "n", " ", "c", "a", "l", "i", "d", "a", "d", " ", "d", "e", " ", "r", "e", "p", "r", "e", "s", "e", "n", "t", "a", "n", "t", "e", " ", "l", "e", "g", "a", "l", " ", "d", "e", " ">>, <<"r", "e", "p", "r", "e", "s", "e", "n", "t", "a", "n", "t", "e", " ", "l", "e", "g", "a", "l", " ", "d", "e", " ">>,
       <<"r", "e", "p", "r", "e", "s", "e", "n", "t", "a", "d", "o", " ", "p", "o", "r", " ">> >>

\* lines 1240-1242: one prefix after the other, each removed once
QuitarPrefijos(t) ==
    LET tras[k \in 0..Len(prefijos_remover)] ==
            IF k = 0 THEN t
            ELSE LET razon == tras[k - 1]
                     pre == prefijos_remover[k]
                 IN  IF Len(razon) >= Len(pre) /\ EmpiezaCon(LowerTexto(razon), pre)
                     THEN StripTexto(Desde(razon, Len(pre) + 1))
                     ELSE StripTexto(razon)
    IN  tras[Len(prefijos_remover)]

\* limpiar_razon_social on text, lines 1202-1244
limpiar_razon_social_texto(razon) ==
    IF ~razon.some \/ razon.v = <<>> THEN Ausente
    ELSE LET limpia == QuitarPrefijos(StripTexto(ColapsarBlancos(StripTexto(razon.v))))
         IN  IF Len(limpia) >= 3 THEN Texto(limpia) ELSE Ausente

\* BAD_EMP, lines 82-85, in lower case
BAD_EMP ==
    { <<"g", "o", "b", "i", "e", "r", "n", "o">>, <<"m", "u", "n", "i", "c", "i", "p", "a", "l">>, <<"g", "a", "d">>, <<"e", "m", "p", "r", "e", "s", "a", " ", "p", "u", "b", "l", "i", "c", "a">>, <<"u", "n", "i", "v", "e", "r", "s", "i", "d", "a", "d">>,
      <<"m", "u", "n", "i", "c", "i", "p", "i", "o">>, <<"a", "l", "c", "a", "l", "d", "i", "a">>, <<"a", "l", "c", "a", "l", "d", "e">>, <<"p", "r", "e", "f", "e", "c", "t", "u", "r", "a">>, <<"c", "o", "n", "s", "e", "j", "o">>,
      <<"m", "i", "n", "i", "s", "t", "e", "r", "i", "o">>, <<"d", "i", "s", "t", "r", "i", "t", "a", "l">>, <<"s", "e", "c", "r", "e", "t", "a", "r", "i", "a">>, <<"s", "e", "n", "a", "e">>, <<"d", "i", "r", "e", "c", "c", "i", "o", "n">>,
      <<"d", "i", "r", "e", "c", "t", "o", "r">>, <<"s", "a", "l", "u", "d">> }

\* no name is taken for the contracting entity
nunca_es_contratante(texto) == FALSE
\* lines 96-97
looks_like_employer(texto) ==
    /\ texto.some
    /\ texto.v # <<>>
    /\ \E clave \in BAD_EMP : Contiene(ColapsarBlancos(LowerTexto(texto.v)), clave)

\* resultado["razon_social"] of llm(), lines 1977-1986
LlmRazon(razon) ==
    IF ~HayCandidato(razon) THEN Ausente
    ELSE LET razon_limpia == limpiar_razon_social_texto(razon)
         IN  IF razon_limpia.some /\ Len(razon_limpia.v) >= 3
                /\ ~looks_like_employer(razon_limpia)
             THEN razon_limpia ELSE Ausente

\* the openers update_postgres refuses, line 2625, in lower case
AperturasRechazadas ==
    { <<"c", "o", "m", "p", "a", "r", "e", "c", "e", "n">>, <<"p", "a", "r", "t", "e", "s">>, <<"q", "u", "i", "e", "n", "e", "s">>, <<"a", "v", ".">>, <<"c", "a", "l", "l", "e">>, <<"s", "e", "c", "t", "o", "r">> }

\* datos_contratista["razon_social"] of update_postgres, lines 2619-2634
RazonGuardada(razon_raw) ==
    IF ~razon_raw.some \/ razon_raw.v = <<>> THEN Ausente
    ELSE LET razon_limpia == limpiar_razon_social_texto(razon_raw)
         IN  IF razon_limpia.some /\ Len(razon_limpia.v) >= 3
                /\ ~\E apertura \in AperturasRechazadas :
                        EmpiezaCon(LowerTexto(razon_limpia.v), apertura)
             THEN razon_limpia ELSE Ausente

\* prohibidos_inicio, lines 1274-1286, in lower case
prohibidos_inicio ==
    { <<"c", "o", "m", "p", "a", "r", "e", "c", "e", "n">>, <<"p", "a", "r", "t", "e", "s">>, <<"q", "u", "i", "e", "n", "e", "s">>, <<"a", "v", "e", "n", "i", "d", "a">>, <<"a", "v", ".">>, <<"c", "a", "l", "l", "e">>,
      <<"s", "e", "c", "t", "o", "r">>, <<"p", "r", "o", "v", "i", "n", "c", "i", "a">> }

\* keywords_empresa, lines 1293-1315, in lower case; EP is searched as a word
keywords_empresa ==
    { <<"c", "i", "a">>, <<"l", "t", "d", "a">>, <<"l", ".", "t", ".", "d", ".", "a", ".">>, <<"s", ".", "a", ".">>, <<"s", ".", " ", "a", ".">>, <<"e", ".", "p", ".">>,
      <<"c", "o", "n", "s", "o", "r", "c", "i", "o">>, <<"c", "o", "o", "p", "e", "r", "a", "t", "i", "v", "a">>, <<"e", "m", "p", "r", "e", "s", "a", " ", "p", "u", "b", "l", "i", "c", "a">>, <<"a", "s", "o", "c", "i", "a", "c", "i", "o", "n">>,
      <<"c", "o", "n", "s", "t", "r", "u", "c", "t", "o", "r", "a">>, <<"s", "e", "r", "v", "i", "c", "i", "o", "s">>, <<"c", "o", "m", "e", "r", "c", "i", "a", "l">>, <<"i", "n", "d", "u", "s", "t", "r", "i", "a", "l">>,
      <<"e", "s", "t", "a", "c", "i", "o", "n", " ", "d", "e", " ", "s", "e", "r", "v", "i", "c", "i", "o">>, <<"g", "a", "s", "o", "l", "i", "n", "e", "r", "a">>, <<"d", "i", "s", "t", "r", "i", "b", "u", "i", "d", "o", "r", "a">> }

\* lines 1317-1321
TieneKeyword(razon) ==
    LET baja == ColapsarBlancos(LowerTexto(razon))
    IN  \/ \E clave \in keywords_empresa : Contiene(baja, clave)
        \/ ContienePalabra(baja, <<"e", "p">>)

\* todas_mayuscula_inicial and solo_letras, lines 1334-1335
PareceNombrePersonal(palabras) ==
    \A i \in 1..Len(palabras) :
        /\ EsMayuscula(palabras[i][1])
        /\ \A j \in 1..Len(palabras[i]) : EsLetra(palabras[i][j])

\* lines 1247-1354
validar_razon_social(razon) ==
    /\ razon.some
    /\ razon.v # <<>>
    /\ LET r == StripTexto(razon.v)
           palabras == Palabras(r)
       IN  /\ Len(r) >= 3
           /\ Len(r) <= 200
           /\ ~EsDigito(r[1])
           /\ ~\E prohibido \in prohibidos_inicio : EmpiezaCon(LowerTexto(r), prohibido)
           /\ \/ TieneKeyword(r)
              \/ Len(palabras) > 3
              \/ Len(palabras) \in {2, 3} /\ ~PareceNombrePersonal(palabras)
           /\ r[1] # ","
           /\ ~Contiene(r, <<";">>)
           /\ Len(palabras) <= 8

MaxPartesRazon == 3
PartesRazon ==
    { <<"l", "a", " ">>, <<"A", "C", "M", "E">>, <<" ">>, <<"S", ".", "A", ".">>, <<"J", "u", "a", "n">>, <<"M", "o", "r", "a">>, <<";">>, <<",">>,
      <<"G", "A", "D", " ">>, <<"C", "a", "l", "l", "e", " ">>, <<"N", "U", "L", "L">>, <<"u", "n", "o", " ", "d", "o", "s", " ", "y", " ", "t", "r", "e", "s", " ">> }

RazonInit ==
    /\ val_pc = "entrada"
    /\ val_campo = "razon_social"
    /\ val_dato \in Candidatos(PartesRazon, MaxPartesRazon)
    /\ val_resultado = Ausente

\* resultado["razon_social"] of llm()
LlmValidarRazon == Validado("razon_social", LlmRazon(val_dato))

\* update_postgres cleans what llm() returned before it builds the SET list
UpdatePostgresRazon ==
    /\ UNCHANGED notValVars
    /\ val_pc = "validado"
    /\ val_campo = "razon_social"
    /\ val_resultado' = RazonGuardada(val_resultado)
    /\ val_pc' = "guardado"
    /\ UNCHANGED <<val_campo, val_dato>>

(***************************************************************************)
(* filter_processed, lines 2186-2334: which of the files found go on to    *)
(* the mapped tasks.                                                       *)
(***************************************************************************)
\* the codes of the files: the two of the table's rows and one more
CodigosDeArchivo == Codigos \cup {"CATE-003"}

\* what list_txt_files finds, in the order of sorted(): the same file name
\* in two year folders gives the same code twice
ArchivosEnDisco ==
    << [file_path |-> "2023/LICO-001.txt", file_name |-> "LICO-001.txt",
        codigo_proceso |-> "LICO-001"],
       [file_path |-> "2024/CATE-003.txt", file_name |-> "CATE-003.txt",
        codigo_proceso |-> "CATE-003"],
       [file_path |-> "2024/LICO-001.txt", file_name |-> "LICO-001.txt",
        codigo_proceso |-> "LICO-001"],
       [file_path |-> "2024/SIE-002.txt", file_name |-> "SIE-002.txt",
        codigo_proceso |-> "SIE-002"] >>

\* the sublist of ArchivosEnDisco with the indices in I
RECURSIVE Sublista(_, _)
Sublista(I, desde) ==
    IF desde > Len(ArchivosEnDisco) THEN <<>>
    ELSE (IF desde \in I THEN <<ArchivosEnDisco[desde]>> ELSE <<>>)
         \o Sublista(I, desde + 1)

\* BATCH_SIZE, line 47: an integer of the environment, 200 when not set
BatchSizes == {1, 2, 200}

\* the rows a code can have: no contractor data, blank strings, only the
\* name, only the ruc, all six fields
FilasDeContrato(esquema) ==
    LET con(valores) ==
            [col \in Columnas |->
                IF col \in esquema /\ col \in DOMAIN valores THEN valores[col] ELSE None]
    IN  { con([razon_social |-> None, ruc |-> None]),
          con([razon_social |-> "  ", ruc |-> ""]),
          con([razon_social |-> "viejo", ruc |-> None]),
          con([razon_social |-> None, ruc |-> "viejo"]),
          FilaVieja(esquema) }

\* a list with an entry for every file
un_archivo_por_entrada(paths) == paths
\* codigos_proceso_map as the list of its values, lines 2207-2217: one entry
\* per code, in the order the codes first appear, holding the last file that
\* has the code
RECURSIVE codigos_proceso_map(_)
codigos_proceso_map(paths) ==
    IF paths = <<>> THEN <<>>
    ELSE LET antes == codigos_proceso_map(SubSeq(paths, 1, Len(paths) - 1))
             ultimo_archivo == paths[Len(paths)]
         IN  IF \E i \in 1..Len(antes) :
                    antes[i].codigo_proceso = ultimo_archivo.codigo_proceso
             THEN [i \in 1..Len(antes) |->
                     IF antes[i].codigo_proceso = ultimo_archivo.codigo_proceso
                     THEN ultimo_archivo ELSE antes[i]]
             ELSE Append(antes, ultimo_archivo)

\* lines 2263-2268
esta_vacio(valor) == valor = None \/ Strip(valor) = ""

\* a row counts as pending when either critical field is empty
sin_algun_dato_critico(fila) ==
    \E col \in {"razon_social", "ruc"} : esta_vacio(fila[col])
\* lines 2284-2287
sin_datos_criticos(fila) ==
    \A col \in {"razon_social", "ruc"} : esta_vacio(fila[col])

\* lines 2270-2305: the entries whose code has a row without critical data
Pendientes(mapa, t) ==
    LET pendiente(file_info) ==
            /\ file_info.codigo_proceso \in DOMAIN t
            /\ sin_datos_criticos(t[file_info.codigo_proceso])
    IN  SelectSeq(mapa, pendiente)

\* lines 2325-2332: archivos_pendientes[:BATCH_SIZE]
LimitarAlBatch(lista, n) == SubSeq(lista, 1, Min(Len(lista), n))

FpInit ==
    /\ fp_pc = "start"
    /\ \E I \in SUBSET (1..Len(ArchivosEnDisco)) : file_paths = Sublista(I, 1)
    /\ batch_size \in BatchSizes
    /\ fp_excepcion = FALSE
    /\ archivos_pendientes = <<>>
    /\ available_columns \in Esquemas
    /\ \E claves \in SUBSET Codigos :
         tabla \in [claves -> FilasDeContrato(available_columns)]
    /\ UpSinTareas

FpIdle ==
    /\ fp_pc = "idle"
    /\ file_paths = <<>>
    /\ batch_size = 0
    /\ fp_excepcion = FALSE
    /\ archivos_pendientes = <<>>

\* lines 2200-2202: nothing was found
FpSinArchivos ==
    /\ UNCHANGED notFpVars
    /\ fp_pc = "start"
    /\ file_paths = <<>>
    /\ archivos_pendientes' = <<>>
    /\ fp_pc' = "returned"
    /\ UNCHANGED <<file_paths, batch_size, fp_excepcion>>

\* lines 2232-2314 and 2324-2334: the batch query answers; it names the six
\* contractor columns, so it answers only on a table that has them all
FpConsulta ==
    /\ UNCHANGED notFpVars
    /\ fp_pc = "start"
    /\ file_paths # <<>>
    /\ CONTRATISTA_FIELDS \subseteq available_columns
    /\ archivos_pendientes' =
         LimitarAlBatch(Pendientes(codigos_proceso_map(file_paths), tabla), batch_size)
    /\ fp_pc' = "returned"
    /\ UNCHANGED <<file_paths, batch_size, fp_excepcion>>

\* lines 2316-2322 and 2324-2334: the connection or the query fails
FpError ==
    /\ UNCHANGED notFpVars
    /\ fp_pc = "start"
    /\ file_paths # <<>>
    /\ fp_excepcion' = TRUE
    /\ archivos_pendientes' = LimitarAlBatch(codigos_proceso_map(file_paths), batch_size)
    /\ fp_pc' = "returned"
    /\ UNCHANGED <<file_paths, batch_size>>

CrIdle == entregados = {}

\* update_postgres of one mapped instance from its call to its end, lines
\* 2438-2838: the row is written when nothing fails, the code has a row
\* and the SET list is not empty
DespuesDeActualizar(t, columnas, fd, ultimo_recurso, falla) ==
    LET clauses == ConstruirSet(columnas, fd, ultimo_recurso)
    IN  IF falla \/ ~Existe(t, fd.codigo_proceso) \/ DOMAIN clauses = {} THEN t
        ELSE EjecutarUpdate(t, fd.codigo_proceso, clauses)

\* the mapped instances of one run, one per entry of filter_processed's
\* list (lines 2907-2910); datos[i] is what the extraction gave for entry i
RECURSIVE ActualizarTodos(_, _, _, _, _, _)
ActualizarTodos(t, columnas, entradas, datos, ultimo_recurso, fallas) ==
    IF entradas = <<>> THEN t
    ELSE LET n == Len(entradas)
             antes == ActualizarTodos(t, columnas, SubSeq(entradas, 1, n - 1),
                                      datos, ultimo_recurso, fallas)
             fd == [file_name |-> entradas[n].file_name,
                    codigo_proceso |-> entradas[n].codigo_proceso,
                    contratista_data |-> datos[n]]
         IN  DespuesDeActualizar(antes, columnas, fd, ultimo_recurso, n \in fallas)

\* the first run of the DAG over the files on disk
CrInit ==
    /\ fp_pc = "start"
    /\ file_paths = ArchivosEnDisco
    /\ batch_size \in BatchSizes
    /\ fp_excepcion = FALSE
    /\ archivos_pendientes = <<>>
    /\ available_columns \in Esquemas
    /\ \E claves \in SUBSET Codigos :
         tabla \in [claves -> FilasDeContrato(available_columns)]
    /\ UpSinTareas
    /\ entregados = {}

\* read_txt_batch, llm_extract_contratista and update_postgres, expanded
\* over the list filter_processed returned (lines 2907-2910)
CrExtraerYActualizar ==
    /\ UNCHANGED <<nzVars, dcVars, llmVars, pfVars, valVars, gcVars>>
    /\ fp_pc = "returned"
    /\ entregados' = entregados \cup
                        {archivos_pendientes[i].file_path :
                            i \in 1..Len(archivos_pendientes)}
    /\ \E datos \in [1..Len(archivos_pendientes) -> DatosContratista],
          fallas \in SUBSET (1..Len(archivos_pendientes)),
          ultimo_recurso \in
            IF available_columns \cap ColumnasDeFecha = {} THEN {None}
            ELSE available_columns \cap ColumnasDeFecha :
         tabla' = ActualizarTodos(tabla, available_columns, archivos_pendientes,
                                  datos, ultimo_recurso, fallas)
    /\ fp_pc' = "fin"
    /\ UNCHANGED <<file_paths, batch_size, fp_excepcion, archivos_pendientes,
                   available_columns, up_pc, file_data, conn, conn_intento,
                   set_clauses, update_status, update_reason, n_updates, excepcion>>

\* the scheduler starts the next run: list_txt_files finds the same files
CrNuevaCorrida ==
    /\ UNCHANGED <<nzVars, dcVars, llmVars, pfVars, upVars, valVars, crVars, gcVars>>
    /\ fp_pc = "fin"
    /\ fp_pc' = "start"
    /\ fp_excepcion' = FALSE
    /\ archivos_pendientes' = <<>>
    /\ UNCHANGED <<file_paths, batch_size>>

(***************************************************************************)
(* generar_candidatos_contratista, lines 575-1125, after the Normalizer   *)
(* and the isolation of the block.  The block is read through what the     *)
(* patterns of the function find in it: gc_doc holds, in the order of the  *)
(* text, the labelled items of all_joined, and what each later search      *)
(* matches.                                                                *)
(***************************************************************************)
\* an address candidate: its text, len(text), and whether
\* "Para\s+todos\s+los\s+efectos" is found in it
SinValor == [texto |-> "", largo |-> 0, para_todos |-> FALSE]
DirBuena == [texto |-> "Av. Amazonas N34-120 y Pereira", largo |-> 30, para_todos |-> FALSE]
DirOtra == [texto |-> "Calle Sucre 10-20 y Bolivar", largo |-> 27, para_todos |-> FALSE]
DirLegal ==
    [texto |-> "Para todos los efectos de este contrato, Quito", largo |-> 46,
     para_todos |-> TRUE]
DirLarga ==
    [texto |-> "Av. de los Shyris y el resto de una frase de 200 caracteres",
     largo |-> 200, para_todos |-> FALSE]

\* needs_replace gives True for every value
needs_replace_siempre(value) == TRUE
\* lines 713-718
needs_replace(value) ==
    \/ value.texto = ""
    \/ value.para_todos
    \/ value.largo > 180

\* lines 69-79
RECURSIVE dedup(_)
dedup(seq) ==
    IF seq = <<>> THEN <<>>
    ELSE LET antes == dedup(SubSeq(seq, 1, Len(seq) - 1))
             item == seq[Len(seq)]
         IN  IF item = <<>> \/ \E i \in 1..Len(antes) : antes[i] = item
             THEN antes ELSE Append(antes, item)

\* the mail and phone texts of the documents
MailVentas == <<"V", "e", "n", "t", "a", "s", "@", "a", "c", "m", "e", ".", "e", "c">>
MailGerencia == <<"g", "e", "r", "e", "n", "c", "i", "a", "@", "a", "c", "m", "e", ".", "e", "c">>
MailCorreo == <<"c", "o", "r", "r", "e", "o", "@", "a", "c", "m", "e", ".", "e", "c">>
MailEjemplo == <<"i", "n", "f", "o", "@", "e", "x", "a", "m", "p", "l", "e", ".", "c", "o", "m">>
TelCelular == <<"0", "9", "9", "1", "2", "3", "4", "5", "6", "7">>
TelFijo == <<"0", "2", "2", "3", "4", "5", "6", "7", "8">>
TelCorto == <<"+", "5", "9", "3", " ", "2", " ", "1", "2", "3", " ", "4", "5">>

\* an item of all_joined: "EL CONTRATISTA:" or a label with its value
Ancla == [etiqueta |-> "EL CONTRATISTA", dir |-> SinValor, v |-> <<>>]
ConDireccion(etiqueta, dir) == [etiqueta |-> etiqueta, dir |-> dir, v |-> <<>>]
ConTexto(etiqueta, v) == [etiqueta |-> etiqueta, dir |-> SinValor, v |-> v]

EtiquetasDeDireccion == {"Direccion", "Domicilio"}

\* re.search of "EL\s+CONTRATISTA\s*:\s*[^:]*?(label)\s*[:\-]\s*(value)": the
\* first "EL CONTRATISTA:" whose next colon belongs to one of the labels;
\* 0 when there is none
PrimeroTrasAncla(items, etiquetas) ==
    LET hallados == {k \in 2..Len(items) :
                        items[k - 1] = Ancla /\ items[k].etiqueta \in etiquetas}
    IN  IF hallados = {} THEN 0
        ELSE CHOOSE k \in hallados : \A j \in hallados : k <= j

\* re.search of a label pattern: its first occurrence, 0 when there is none
PrimeraCoincidencia(items, etiquetas) ==
    LET hallados == {k \in 1..Len(items) : items[k].etiqueta \in etiquetas}
    IN  IF hallados = {} THEN 0
        ELSE CHOOSE k \in hallados : \A j \in hallados : k <= j

\* the first occurrence is taken
UltimaEsLaPrimera(items, etiquetas) == PrimeraCoincidencia(items, etiquetas)
\* list(re.finditer(...))[-1]: the last occurrence, 0 when there is none
UltimaCoincidencia(items, etiquetas) ==
    LET hallados == {k \in 1..Len(items) : items[k].etiqueta \in etiquetas}
    IN  IF hallados = {} THEN 0
        ELSE CHOOSE k \in hallados : \A j \in hallados : k >= j

\* lines 633-668: cand_dir and cand_dom of the labelled step, <<dir, dom>>
DireccionDeEtiquetas(items) ==
    LET k == PrimeroTrasAncla(items, EtiquetasDeDireccion)
        d == PrimeraCoincidencia(items, {"Domicilio"})
        r == PrimeraCoincidencia(items, {"Direccion"})
    IN  IF k # 0 THEN <<items[k].dir, items[k].dir>>
        ELSE IF d # 0 THEN <<items[d].dir, items[d].dir>>
        ELSE IF r # 0 THEN <<items[r].dir, items[r].dir>>
        ELSE <<SinValor, SinValor>>

\* the two tests of lines 678 and 685
MailRechazado(mail) ==
    \/ \E final \in {<<"@", "e", "x", "a", "m", "p", "l", "e", ".", "c", "o", "m">>, <<"@", "e", "x", "a", "m", "p", "l", "e", ".", "o", "r", "g">>, <<"@", "e", "x", "a", "m", "p", "l", "e", ".", "n", "e", "t">>} :
            TerminaEn(mail, final)
    \/ EmpiezaCon(mail, <<"c", "o", "r", "r", "e", "o", "@">>)

\* lines 670-686: cand_mails of the labelled step
MailsDeEtiquetas(items) ==
    LET k == PrimeroTrasAncla(items, {"Correo"})
        u == UltimaCoincidencia(items, {"Correo"})
        mail == IF k = 0 THEN <<>> ELSE StripTexto(LowerTexto(items[k].v))
        last_mail == IF u = 0 THEN <<>> ELSE StripTexto(LowerTexto(items[u].v))
    IN  IF k # 0 /\ ~MailRechazado(mail) THEN <<mail>>
        ELSE IF u # 0 /\ ~MailRechazado(last_mail) THEN <<last_mail>>
        ELSE <<>>

\* normalize_phone of a text, <<>> for None
Normalizado(raw) ==
    LET tel == normalize_phone(Texto(raw))
    IN  IF tel.some THEN tel.v ELSE <<>>

\* collect_phones_from_text, lines 227-240, on the items: the numbers of
\* the text that normalize_phone accepts, without repetitions
collect_phones_from_text(items) ==
    dedup([k \in 1..Len(items) |->
              IF items[k].etiqueta = "Telefono" THEN Normalizado(items[k].v) ELSE <<>>])

\* lines 688-710: cand_tels of the labelled step
TelsDeEtiquetas(items) ==
    LET k == PrimeroTrasAncla(items, {"Telefono"})
        u == UltimaCoincidencia(items, {"Telefono"})
        tel == IF k = 0 THEN <<>> ELSE Normalizado(StripTexto(items[k].v))
        last_tel == IF u = 0 THEN <<>> ELSE Normalizado(StripTexto(items[u].v))
    IN  IF tel # <<>> THEN <<tel>>
        ELSE IF last_tel # <<>> THEN <<last_tel>>
        ELSE collect_phones_from_text(items)

\* what a search of a section finds: whether the section is there, the
\* address, the mails and the phones matched in it, in the order of the text
NoHay == [hay |-> FALSE, addr |-> SinValor, mails |-> <<>>, tels |-> <<>>]
Hallazgo(addr, mails, tels) == [hay |-> TRUE, addr |-> addr, mails |-> mails, tels |-> tels]

\* contractor_contact_slice: addr_block, direct, the phones and the mails
NoHaySlice ==
    [hay |-> FALSE, addr_block |-> SinValor, direct |-> SinValor,
     phones |-> <<>>, mails |-> <<>>]

\* a name pattern with a 13-digit number next to it
SinNombreConRuc == [hay |-> FALSE, nombre |-> Ausente, ruc |-> <<>>]

LowerTodos(mails) == [i \in 1..Len(mails) |-> LowerTexto(mails[i])]
NormalizarTodos(tels) == [i \in 1..Len(tels) |-> Normalizado(tels[i])]

\* the candidates as one value
Cands ==
    [dir |-> cand_dir, dom |-> cand_dom, mails |-> cand_mails, tels |-> cand_tels,
     razon |-> cand_razon]

\* lines 726-765, on the candidates c and the slice s
contact_slice(c, s) ==
    LET con_bloque == s.hay /\ s.addr_block.texto # "" /\ s.addr_block.largo >= 6
        dir1 == IF con_bloque /\ needs_replace(c.dir) THEN s.addr_block ELSE c.dir
        dom1 == IF con_bloque /\ needs_replace(c.dom) THEN s.addr_block ELSE c.dom
        con_direct == s.hay /\ needs_replace(dir1) /\ s.direct.texto # ""
    IN  [dir |-> IF con_direct THEN s.direct ELSE dir1,
         dom |-> IF con_direct /\ needs_replace(dom1) THEN s.direct ELSE dom1,
         tels |-> IF s.hay /\ c.tels = <<>> /\ s.phones # <<>>
                  THEN dedup(c.tels \o s.phones) ELSE c.tels,
         mails |-> IF s.hay /\ c.mails = <<>> /\ s.mails # <<>>
                   THEN dedup(c.mails \o LowerTodos(s.mails)) ELSE c.mails,
         razon |-> c.razon]

\* lines 824-899, on the candidates c and what the clause holds
strat_clausula_domicilio_el_contratista(c, h) ==
    IF ~h.hay THEN c
    ELSE LET tels == dedup(NormalizarTodos(h.tels))
         IN  [dir |-> IF h.addr.texto # "" /\ needs_replace(c.dir) THEN h.addr ELSE c.dir,
              dom |-> IF h.addr.texto # "" /\ needs_replace(c.dom) THEN h.addr ELSE c.dom,
              mails |-> IF h.mails # <<>> THEN dedup(c.mails \o LowerTodos(h.mails))
                        ELSE c.mails,
              tels |-> IF tels # <<>> THEN dedup(c.tels \o tels) ELSE c.tels,
              razon |-> c.razon]

\* lines 902-939, on the candidates c and the name the searches settle on
strat_nombre_por_la_parte_contratista(c, nombre) ==
    IF c.razon.some /\ c.razon.v # <<>> THEN c
    ELSE [c EXCEPT !.razon = nombre]

\* lines 768-796, on the candidates c and what the section holds
strat_datos_contratista(c, h) ==
    IF ~h.hay THEN c
    ELSE LET busca_dom == needs_replace(c.dir) \/ needs_replace(c.dom)
             tel == IF h.tels = <<>> THEN <<>> ELSE Normalizado(h.tels[1])
         IN  [dir |-> IF busca_dom /\ h.addr.texto # "" /\ needs_replace(c.dir)
                      THEN h.addr ELSE c.dir,
              dom |-> IF busca_dom /\ h.addr.texto # "" /\ needs_replace(c.dom)
                      THEN h.addr ELSE c.dom,
              mails |-> IF c.mails = <<>> /\ h.mails # <<>>
                        THEN <<LowerTexto(h.mails[1])>> ELSE c.mails,
              tels |-> IF c.tels = <<>> /\ tel # <<>> THEN <<tel>> ELSE c.tels,
              razon |-> c.razon]

\* lines 799-821, on the candidates c and what the block holds
strat_proveedor_bloque(c, h) ==
    IF ~h.hay THEN c
    ELSE LET busca_dom == needs_replace(c.dir) \/ needs_replace(c.dom)
             tel == IF h.tels = <<>> THEN <<>> ELSE Normalizado(h.tels[1])
         IN  [dir |-> IF busca_dom /\ h.addr.texto # "" /\ needs_replace(c.dir)
                      THEN h.addr ELSE c.dir,
              dom |-> IF busca_dom /\ h.addr.texto # "" /\ needs_replace(c.dom)
                      THEN h.addr ELSE c.dom,
              mails |-> IF c.mails = <<>> /\ h.mails # <<>>
                        THEN <<LowerTexto(h.mails[1])>> ELSE c.mails,
              tels |-> IF c.tels = <<>> /\ tel # <<>> THEN <<tel>> ELSE c.tels,
              razon |-> c.razon]

\* the party's name is searched before the domicile clause
strategies_nombre_primero ==
    << "strat_nombre_por_la_parte_contratista",
       "strat_clausula_domicilio_el_contratista",
       "strat_datos_contratista",
       "strat_proveedor_bloque" >>
\* line 942
strategies ==
    << "strat_clausula_domicilio_el_contratista",
       "strat_nombre_por_la_parte_contratista",
       "strat_datos_contratista",
       "strat_proveedor_bloque" >>

\* line 944
todos_llenos ==
    /\ cand_dir.texto # ""
    /\ cand_dom.texto # ""
    /\ cand_mails # <<>>
    /\ cand_tels # <<>>
    /\ cand_razon.some /\ cand_razon.v # <<>>

\* the context of a 13-digit sequence: which of the words of lines
\* 1050-1051 and 1063-1070 the 150 characters around it hold
Contexto(contratista, consorcio, proveedor, contratante, gobierno) ==
    [contratista |-> contratista, consorcio |-> consorcio, proveedor |-> proveedor,
     contratante |-> contratante, gobierno |-> gobierno]
Contextos ==
    { Contexto(TRUE, FALSE, FALSE, FALSE, FALSE),
      Contexto(FALSE, TRUE, FALSE, FALSE, FALSE),
      Contexto(FALSE, FALSE, FALSE, FALSE, FALSE),
      Contexto(FALSE, FALSE, FALSE, TRUE, FALSE),
      Contexto(FALSE, FALSE, FALSE, FALSE, TRUE),
      Contexto(FALSE, FALSE, TRUE, FALSE, TRUE) }

\* lines 1061-1071
Score(ctx) ==
    (IF ctx.contratista \/ ctx.consorcio \/ ctx.proveedor THEN 3 ELSE 0)
    + (IF ctx.contratista THEN 2 ELSE 0)
    + (IF ctx.consorcio THEN 1 ELSE 0)
    - (IF ctx.contratante \/ ctx.gobierno THEN 3 ELSE 0)
    - (IF ctx.contratante THEN 2 ELSE 0)

\* the 13-digit sequences of the block, by position
RucsDelBloque ==
    << <<"1", "7", "9", "0", "0", "1", "2", "3", "4", "5", "0", "0", "1">>, <<"0", "9", "9", "0", "0", "1", "1", "2", "2", "3", "0", "0", "1">>, <<"1", "7", "6", "0", "0", "0", "1", "5", "5", "0", "0", "0", "1">>,
       <<"0", "1", "9", "0", "0", "0", "0", "0", "0", "0", "0", "0", "1">> >>

\* lines 1055-1072: scored before the sort
Puntuados(rucs) ==
    [i \in 1..Len(rucs) |-> [ruc |-> RucsDelBloque[i], score |-> Score(rucs[i]), idx |-> i]]

\* the sequences are left in the order of the text
AntesPorPosicion(a, b) == a.idx < b.idx
\* the key of line 1073: (-score, idx)
Antes(a, b) == a.score > b.score \/ (a.score = b.score /\ a.idx < b.idx)

\* scored.sort(key=...), line 1073
Ordenados(lista) ==
    [i \in 1..Len(lista) |->
        CHOOSE e \in {lista[k] : k \in 1..Len(lista)} :
            Cardinality({k \in 1..Len(lista) : Antes(lista[k], e)}) = i - 1]

\* line 1074: the first of the sorted list with a score of 0 or more, the
\* first of the list when there is none
Best(ordenados) ==
    IF \E i \in 1..Len(ordenados) : ordenados[i].score >= 0
    THEN ordenados[CHOOSE i \in 1..Len(ordenados) :
                      /\ ordenados[i].score >= 0
                      /\ \A j \in 1..(i - 1) : ordenados[j].score < 0]
    ELSE ordenados[1]

\* limpiar_nombre_persona, lines 1440-1483, on names without a title, a
\* digit or a refused word: the words of two letters or more, capitalized
Capitalizada(palabra) ==
    [i \in 1..Len(palabra) |->
        IF i = 1
        THEN (IF EsLetraMinuscula(palabra[i])
              THEN Mayusculas[CHOOSE k \in 1..Len(Minusculas) : Minusculas[k] = palabra[i]]
              ELSE palabra[i])
        ELSE LowerChar(palabra[i])]
RECURSIVE Unidas(_)
Unidas(palabras) ==
    IF palabras = <<>> THEN <<>>
    ELSE IF Len(palabras) = 1 THEN palabras[1]
    ELSE palabras[1] \o <<" ">> \o Unidas(Tail(palabras))
limpiar_nombre_persona_texto(valor) ==
    LET partes == SelectSeq(Palabras(valor.v), LAMBDA p : Len(p) >= 2)
    IN  IF ~valor.some \/ Len(partes) < 2 THEN Ausente
        ELSE Texto(Unidas([i \in 1..Len(partes) |-> Capitalizada(partes[i])]))

\* es_posible_persona, lines 1092-1094
es_posible_persona(razon) ==
    LET palabras == Palabras(razon)
        baja == LowerTexto(razon)
    IN  /\ Len(palabras) \in {2, 3}
        /\ \A i \in 1..Len(palabras) : EsMayuscula(palabras[i][1])
        /\ ~\E i \in 1..Len(razon) : EsDigito(razon[i])
        /\ ~\E clave \in {<<"l", "t", "d", "a">>, <<"s", ".", "a", ".">>, <<"c", "i", "a">>, <<"c", "o", "n", "s", "o", "r", "c", "i", "o">>} :
                Contiene(baja, clave)

\* the documents: a block with nothing in it
DocVacio ==
    [linea |-> Ausente, items |-> <<>>, slice |-> NoHaySlice, clausula |-> NoHay,
     nombre |-> Ausente, datos |-> NoHay, proveedor |-> NoHay, forzado |-> Ausente,
     entre_contratantes |-> FALSE, con_ruc |-> SinNombreConRuc,
     representado |-> SinNombreConRuc, rucs |-> <<>>]

\* the labelled items a block can hold
Items ==
    { Ancla,
      ConDireccion("Domicilio", DirBuena), ConDireccion("Domicilio", DirOtra),
      ConDireccion("Direccion", DirLegal),
      ConTexto("Correo", MailVentas), ConTexto("Correo", MailGerencia),
      ConTexto("Correo", MailEjemplo), ConTexto("Correo", MailCorreo),
      ConTexto("Telefono", TelCelular), ConTexto("Telefono", TelFijo),
      ConTexto("Telefono", TelCorto) }
MaxItems == 3
MaxRucs == 3

\* what strat_clausula_domicilio_el_contratista finds in a block made of
\* labelled items only: the clause runs from the first "EL CONTRATISTA:" on,
\* it has no Provincia, Canton or Calles line, and its mails and phones are
\* those of the items after the anchor
ClausulaDe(items) ==
    LET a == PrimeraCoincidencia(items, {"EL CONTRATISTA"})
        resto == SubSeq(items, a + 1, Len(items))
        correos == SelectSeq(resto, LAMBDA it : it.etiqueta = "Correo")
        telefonos == SelectSeq(resto, LAMBDA it : it.etiqueta = "Telefono")
    IN  IF a = 0 THEN NoHay
        ELSE Hallazgo(SinValor, [i \in 1..Len(correos) |-> correos[i].v],
                      [i \in 1..Len(telefonos) |-> telefonos[i].v])

\* blocks that differ in their labelled items
DocsDeEtiquetas ==
    {[DocVacio EXCEPT !.items = items, !.clausula = ClausulaDe(items)] :
        items \in SeqsUpTo(Items, MaxItems)}

\* blocks that differ in what the later searches find; the labelled items
\* come before the "EL CONTRATISTA:" that opens the domicile clause, and
\* the contact slice has an address block only after such an anchor
CombinacionesDeEstrategias ==
    {[DocVacio EXCEPT !.linea = linea,
                      !.items = IF clausula.hay THEN Append(items, Ancla) ELSE items,
                      !.slice = slice, !.clausula = clausula, !.nombre = nombre,
                      !.datos = datos, !.proveedor = proveedor, !.forzado = forzado] :
        linea \in {Ausente, Texto(<<"l", "a", " ", "A", "C", "M", "E", " ", "S", ".", "A", ".">>)},
        items \in { <<>>,
                    <<ConTexto("Correo", MailVentas)>>,
                    <<ConDireccion("Domicilio", DirLegal), ConTexto("Telefono", TelFijo)>>,
                    <<ConDireccion("Domicilio", DirBuena), ConTexto("Correo", MailVentas),
                      ConTexto("Telefono", TelFijo)>> },
        slice \in { NoHaySlice,
                    [hay |-> TRUE, addr_block |-> DirOtra, direct |-> SinValor,
                     phones |-> <<TelCelular>>, mails |-> <<MailGerencia>>],
                    [hay |-> TRUE, addr_block |-> DirLarga, direct |-> DirBuena,
                     phones |-> <<>>, mails |-> <<>>],
                    [hay |-> TRUE, addr_block |-> SinValor, direct |-> DirBuena,
                     phones |-> <<TelCelular>>, mails |-> <<>>] },
        clausula \in { NoHay,
                       Hallazgo(DirOtra, <<>>, <<>>),
                       Hallazgo(SinValor, <<MailGerencia>>, <<TelCelular>>),
                       Hallazgo(DirOtra, <<MailVentas, MailGerencia>>,
                                <<TelFijo, TelCorto, TelCelular>>) },
        nombre \in {Ausente, Texto(<<"J", "u", "a", "n", " ", "M", "o", "r", "a">>)},
        datos \in { NoHay,
                    Hallazgo(DirBuena, <<MailGerencia>>, <<TelCelular>>),
                    Hallazgo(SinValor, <<MailVentas>>, <<TelCorto>>) },
        proveedor \in { NoHay, Hallazgo(DirOtra, <<MailGerencia>>, <<TelFijo>>) },
        forzado \in {Ausente, Texto(<<"P", "e", "d", "r", "o", " ", "P", "a", "z">>)}}
DocsDeEstrategias ==
    {doc \in CombinacionesDeEstrategias :
        doc.slice.addr_block.texto = "" \/ doc.clausula.hay}

\* blocks that differ in their 13-digit sequences
DocsDeRuc ==
    {[DocVacio EXCEPT !.rucs = rucs, !.linea = linea, !.con_ruc = con_ruc] :
        rucs \in SeqsUpTo(Contextos, MaxRucs),
        linea \in {Ausente, Texto(<<"A", "C", "M", "E", " ", "S", ".", "A", ".">>)},
        con_ruc \in { SinNombreConRuc,
                      [hay |-> TRUE, nombre |-> Texto(<<"P", "e", "d", "r", "o", " ", "P", "a", "z">>),
                       ruc |-> RucsDelBloque[4]] }}

\* blocks that differ in the names the searches after the loop find
DocsDeNombres ==
    [linea : {Ausente, Texto(<<"G", "A", "D", " ", "M", "u", "n", "i", "c", "i", "p", "a", "l">>), Texto(<<"F", "i", "r", "m", "a", "d", "o", " ", "A", "n", "a", " ", "R", "u", "i", "z">>),
              Texto(<<"l", "a", " ", "A", "C", "M", "E", " ", "S", ".", "A", ".">>)},
     items : {<<>>},
     slice : {NoHaySlice},
     clausula : {NoHay},
     nombre : {Ausente, Texto(<<"J", "u", "a", "n", " ", "M", "o", "r", "a">>)},
     datos : {NoHay},
     proveedor : {NoHay},
     forzado : {Ausente, Texto(<<"P", "e", "d", "r", "o", " ", "P", "a", "z">>), Texto(<<"D", "i", "r", "e", "c", "c", "i", "o", "n", " ", "F", "i", "n", "a", "n", "c", "i", "e", "r", "a">>),
                Texto(<<"A", "d", "m", "i", "n", "i", "s", "t", "r", "a", "d", "o", "r", " ", "P", "e", "d", "r", "o", " ", "P", "a", "z">>)},
     entre_contratantes : BOOLEAN,
     con_ruc : { SinNombreConRuc,
                 [hay |-> TRUE, nombre |-> Texto(<<"P", "e", "d", "r", "o", " ", "P", "a", "z">>), ruc |-> RucsDelBloque[2]] },
     representado : { SinNombreConRuc,
                      [hay |-> TRUE, nombre |-> Texto(<<"A", "n", "a", " ", "R", "u", "i", "z">>), ruc |-> <<>>],
                      [hay |-> TRUE, nombre |-> Texto(<<"A", "n", "a", " ", "R", "u", "i", "z">>), ruc |-> RucsDelBloque[1]] },
     rucs : {<<>>, <<Contexto(FALSE, FALSE, FALSE, TRUE, FALSE)>>}]

GcInit ==
    /\ gc_pc = "inicio"
    /\ gc_doc \in DocsDeEtiquetas \cup DocsDeEstrategias \cup DocsDeRuc \cup DocsDeNombres
    /\ gc_i = 1
    /\ invocadas = <<>>
    /\ cand_razon = Ausente
    /\ cand_representante = Ausente
    /\ cand_ruc = <<>>
    /\ cand_mails = <<>>
    /\ cand_tels = <<>>
    /\ cand_dir = SinValor
    /\ cand_dom = SinValor
    /\ scored = <<>>

GcIdle ==
    /\ gc_pc = "idle"
    /\ gc_doc = DocVacio
    /\ gc_i = 0
    /\ invocadas = <<>>
    /\ cand_razon = Ausente
    /\ cand_representante = Ausente
    /\ cand_ruc = <<>>
    /\ cand_mails = <<>>
    /\ cand_tels = <<>>
    /\ cand_dir = SinValor
    /\ cand_dom = SinValor
    /\ scored = <<>>

\* the candidates become c
Asignar(c) ==
    /\ cand_dir' = c.dir
    /\ cand_dom' = c.dom
    /\ cand_mails' = c.mails
    /\ cand_tels' = c.tels
    /\ cand_razon' = c.razon

\* lines 603-710: the name of the "CONTRATISTA:" line and the labelled
\* address, mail and phone
GcEtiquetas ==
    /\ UNCHANGED notGcVars
    /\ gc_pc = "inicio"
    /\ cand_razon' = gc_doc.linea
    /\ cand_dir' = DireccionDeEtiquetas(gc_doc.items)[1]
    /\ cand_dom' = DireccionDeEtiquetas(gc_doc.items)[2]
    /\ cand_mails' = MailsDeEtiquetas(gc_doc.items)
    /\ cand_tels' = TelsDeEtiquetas(gc_doc.items)
    /\ gc_pc' = "etiquetas"
    /\ UNCHANGED <<gc_doc, gc_i, invocadas, cand_representante, cand_ruc, scored>>

\* lines 726-765
GcContactSlice ==
    /\ UNCHANGED notGcVars
    /\ gc_pc = "etiquetas"
    /\ Asignar(contact_slice(Cands, gc_doc.slice))
    /\ gc_pc' = "estrategias"
    /\ UNCHANGED <<gc_doc, gc_i, invocadas, cand_representante, cand_ruc, scored>>

\* one turn of the loop of lines 943-947 that calls strategy s
Estrategia(s, c) ==
    /\ UNCHANGED notGcVars
    /\ gc_pc = "estrategias"
    /\ gc_i <= Len(strategies)
    /\ strategies[gc_i] = s
    /\ ~todos_llenos
    /\ Asignar(c)
    /\ invocadas' = Append(invocadas, s)
    /\ gc_i' = gc_i + 1
    /\ UNCHANGED <<gc_pc, gc_doc, cand_representante, cand_ruc, scored>>

StratClausulaDomicilioElContratista ==
    Estrategia("strat_clausula_domicilio_el_contratista",
               strat_clausula_domicilio_el_contratista(Cands, gc_doc.clausula))
StratNombrePorLaParteContratista ==
    Estrategia("strat_nombre_por_la_parte_contratista",
               strat_nombre_por_la_parte_contratista(Cands, gc_doc.nombre))
StratDatosContratista ==
    Estrategia("strat_datos_contratista",
               strat_datos_contratista(Cands, gc_doc.datos))
StratProveedorBloque ==
    Estrategia("strat_proveedor_bloque",
               strat_proveedor_bloque(Cands, gc_doc.proveedor))

\* the loop ends: the list is done, or the break of lines 944-945
GcFinDeEstrategias ==
    /\ UNCHANGED notGcVars
    /\ gc_pc = "estrategias"
    /\ gc_i > Len(strategies) \/ todos_llenos
    /\ gc_pc' = "forzar"
    /\ UNCHANGED <<gc_doc, gc_i, invocadas, cand_razon, cand_representante, cand_ruc,
                   cand_mails, cand_tels, cand_dir, cand_dom, scored>>

\* BAD_NAME_CONTEXT, lines 86-89, in lower case
BAD_NAME_CONTEXT ==
    { <<"a", "l", "c", "a", "l", "d", "e">>, <<"c", "o", "n", "t", "r", "a", "t", "a", "n", "t", "e">>, <<"m", "u", "n", "i", "c", "i", "p", "a", "l">>, <<"g", "o", "b", "i", "e", "r", "n", "o">>,
      <<"a", "d", "m", "i", "n", "i", "s", "t", "r", "a", "d", "o", "r">>, <<"d", "i", "r", "e", "c", "t", "o", "r">> }
EnMalContexto(texto) == \E clave \in BAD_NAME_CONTEXT : Contiene(LowerTexto(texto), clave)

\* lines 949-961: the name before the last "... RUC <13 digits>"
GcForzarRazon ==
    /\ UNCHANGED notGcVars
    /\ gc_pc = "forzar"
    /\ cand_razon' =
         IF gc_doc.forzado.some /\ gc_doc.forzado.v # <<>>
            /\ ~looks_like_employer(gc_doc.forzado)
            /\ ~EnMalContexto(gc_doc.forzado.v)
         THEN gc_doc.forzado ELSE cand_razon
    /\ gc_pc' = "firmas"
    /\ UNCHANGED <<gc_doc, gc_i, invocadas, cand_representante, cand_ruc,
                   cand_mails, cand_tels, cand_dir, cand_dom, scored>>

\* lines 963-1003: a name taken from a signature or found among the
\* contracting entity's words gives way to a name with its RUC
GcExcepcionFirmas ==
    /\ UNCHANGED notGcVars
    /\ gc_pc = "firmas"
    /\ LET needs_override ==
               \/ ~cand_razon.some
               \/ cand_razon.v = <<>>
               \/ \E final \in {<<"f", "i", "r", "m", "a", "d", "o">>, <<"f", "i", "r", "m", "a", "d", "a">>} :
                       Contiene(LowerTexto(cand_razon.v), final)
               \/ gc_doc.entre_contratantes
           hallado == needs_override /\ gc_doc.con_ruc.hay
       IN  /\ cand_razon' = IF hallado THEN gc_doc.con_ruc.nombre ELSE cand_razon
           /\ cand_ruc' = IF hallado /\ only_digits(gc_doc.con_ruc.ruc) # <<>>
                          THEN <<only_digits(gc_doc.con_ruc.ruc)>> ELSE cand_ruc
    /\ gc_pc' = "representante"
    /\ UNCHANGED <<gc_doc, gc_i, invocadas, cand_representante,
                   cand_mails, cand_tels, cand_dir, cand_dom, scored>>

\* lines 1005-1030: an entity's name gives way to its legal representative
GcExcepcionRepresentante ==
    /\ UNCHANGED notGcVars
    /\ gc_pc = "representante"
    /\ LET needs_rep_name ==
               \/ ~cand_razon.some
               \/ cand_razon.v = <<>>
               \/ looks_like_employer(cand_razon)
               \/ \E palabra \in {<<"a", "u", "t", "o", "n", "o", "m", "o">>, <<"d", "e", "s", "c", "e", "n", "t", "r", "a", "l", "i", "z", "a", "d", "o">>} :
                       ContienePalabra(LowerTexto(cand_razon.v), palabra)
           hallado == needs_rep_name /\ gc_doc.representado.hay
       IN  /\ cand_razon' = IF hallado THEN gc_doc.representado.nombre ELSE cand_razon
           /\ cand_ruc' = IF hallado /\ gc_doc.representado.ruc # <<>>
                          THEN <<only_digits(gc_doc.representado.ruc)>> ELSE cand_ruc
    /\ gc_pc' = "limpieza"
    /\ UNCHANGED <<gc_doc, gc_i, invocadas, cand_representante,
                   cand_mails, cand_tels, cand_dir, cand_dom, scored>>

\* lines 1033-1039
GcLimpieza ==
    /\ UNCHANGED notGcVars
    /\ gc_pc = "limpieza"
    /\ cand_mails' = dedup(LowerTodos(cand_mails))
    /\ cand_tels' = dedup(NormalizarTodos(cand_tels))
    /\ gc_pc' = "ruc"
    /\ UNCHANGED <<gc_doc, gc_i, invocadas, cand_razon, cand_representante, cand_ruc,
                   cand_dir, cand_dom, scored>>

\* lines 1049-1080
GcRuc ==
    /\ UNCHANGED notGcVars
    /\ gc_pc = "ruc"
    /\ scored' = Ordenados(Puntuados(gc_doc.rucs))
    /\ cand_ruc' = IF gc_doc.rucs # <<>> THEN <<only_digits(Best(scored').ruc)>>
                   ELSE cand_ruc
    /\ gc_pc' = "candidatos"
    /\ UNCHANGED <<gc_doc, gc_i, invocadas, cand_razon, cand_representante,
                   cand_mails, cand_tels, cand_dir, cand_dom>>

\* lines 1082-1125: the name is cleaned and the candidates are returned
GcRetornar ==
    /\ UNCHANGED notGcVars
    /\ gc_pc = "candidatos"
    /\ LET cand_razon_limpio == limpiar_razon_social_texto(cand_razon)
       IN  /\ cand_razon' = cand_razon_limpio
           /\ cand_representante' =
                IF cand_razon_limpio.some /\ es_posible_persona(cand_razon_limpio.v)
                THEN limpiar_nombre_persona_texto(cand_razon_limpio)
                ELSE Ausente
    /\ gc_pc' = "returned"
    /\ UNCHANGED <<gc_doc, gc_i, invocadas, cand_ruc, cand_mails, cand_tels,
                   cand_dir, cand_dom, scored>>

(***************************************************************************)
(* Specifications                                                          *)
(***************************************************************************)
InitNorm == NzInit /\ DcIdle /\ LlmIdle /\ PfIdle /\ UpIdle /\ ValIdle /\ FpIdle /\ CrIdle /\ GcIdle
NextNorm == NzGenerarCandidatos \/ NzPreFiltro
SpecNorm == InitNorm /\ [][NextNorm]_vars

InitChunks == DcInit /\ NzIdle /\ LlmIdle /\ PfIdle /\ UpIdle /\ ValIdle /\ FpIdle /\ CrIdle /\ GcIdle
NextChunks == DcDividir \/ DcLlmDividir
SpecChunks == InitChunks /\ [][NextChunks]_vars

InitLLM == LlmInit /\ NzIdle /\ DcIdle /\ PfIdle /\ UpIdle /\ ValIdle /\ FpIdle /\ CrIdle /\ GcIdle
NextLLM ==
    \/ LlmSinApiKey
    \/ LlmDividir
    \/ LlmChunkPedir
    \/ LlmChunkRespuesta
    \/ LlmFusionar
    \/ LlmValidar
SpecLLM == InitLLM /\ [][NextLLM]_vars

InitFiltro == PfInit /\ NzIdle /\ DcIdle /\ LlmIdle /\ UpIdle /\ ValIdle /\ FpIdle /\ CrIdle /\ GcIdle
NextFiltro ==
    \/ PfTextoVacio
    \/ PfNormalizar
    \/ PfMatch
    \/ PfFallback
    \/ PfUnir
SpecFiltro == InitFiltro /\ [][NextFiltro]_vars

InitValidar == ValInit /\ NzIdle /\ DcIdle /\ LlmIdle /\ PfIdle /\ UpIdle /\ FpIdle /\ CrIdle /\ GcIdle
NextValidar ==
    \/ LlmValidarRuc
    \/ LlmValidarTelefono
    \/ LlmValidarMail
    \/ NormalizePhone
SpecValidar == InitValidar /\ [][NextValidar]_vars

InitRazon == RazonInit /\ NzIdle /\ DcIdle /\ LlmIdle /\ PfIdle /\ UpIdle /\ FpIdle /\ CrIdle /\ GcIdle
NextRazon ==
    \/ LlmValidarRazon
    \/ UpdatePostgresRazon
SpecRazon == InitRazon /\ [][NextRazon]_vars

InitFilter == FpInit /\ NzIdle /\ DcIdle /\ LlmIdle /\ PfIdle /\ ValIdle /\ CrIdle /\ GcIdle
NextFilter ==
    \/ FpSinArchivos
    \/ FpConsulta
    \/ FpError
SpecFilter == InitFilter /\ [][NextFilter]_vars

\* every task of a run ends and the scheduler starts run after run
InitCorridas == CrInit /\ NzIdle /\ DcIdle /\ LlmIdle /\ PfIdle /\ ValIdle /\ GcIdle
NextCorridas ==
    \/ FpConsulta
    \/ FpError
    \/ CrExtraerYActualizar
    \/ CrNuevaCorrida
SpecCorridas == InitCorridas /\ [][NextCorridas]_vars /\ WF_vars(NextCorridas)

InitReglas ==
    GcInit /\ NzIdle /\ DcIdle /\ LlmIdle /\ PfIdle /\ UpIdle /\ ValIdle /\ FpIdle /\ CrIdle
NextReglas ==
    \/ GcEtiquetas \/ GcContactSlice
    \/ StratClausulaDomicilioElContratista \/ StratNombrePorLaParteContratista
    \/ StratDatosContratista \/ StratProveedorBloque
    \/ GcFinDeEstrategias \/ GcForzarRazon \/ GcExcepcionFirmas
    \/ GcExcepcionRepresentante \/ GcLimpieza \/ GcRuc \/ GcRetornar
SpecReglas == InitReglas /\ [][NextReglas]_vars

Init == UpInit /\ NzIdle /\ DcIdle /\ LlmIdle /\ PfIdle /\ ValIdle /\ FpIdle /\ CrIdle /\ GcIdle
NextUpdatePostgres ==
    \/ \E t \in Tareas : UpIniciar(t)
    \/ \E t \in Tareas : UpConectar(t)
    \/ \E t \in Tareas : UpColumnas(t)
    \/ \E t \in Tareas : UpExiste(t)
    \/ \E t \in Tareas : UpEjecutar(t)
Next ==
    \/ NextUpdatePostgres
    \/ Insercion
Spec == Init /\ [][Next]_vars

(***************************************************************************)
(* Claims about llm(), checked under SpecLLM                               *)
(***************************************************************************)
\* "non-empty" as the merge reads it: not None, not "", not the literal
\* null / none
NoVacio(v) == v \notin {None, "", "null", "none"}

\* the chunks among 1..k that supplied a non-empty value for campo
Suplen(campo, k) == {j \in 1..k : NoVacio(parciales[j][campo])}

\* the value of the lowest-numbered chunk among 1..k that supplied one
PrimerValor(campo, k) ==
    IF Suplen(campo, k) = {} THEN None
    ELSE parciales[MinOf(Suplen(campo, k))][campo]

(***************************************************************************)
(* C4: after the results of chunks 1..k have been merged, for every k,     *)
(* each field of the accumulator is the value of the lowest-numbered chunk *)
(* that supplied a non-empty value for it, or absent if none did (so a     *)
(* field once set is not changed by a later chunk).                        *)
(***************************************************************************)
C4_FirstNonEmptyWins ==
    \A campo \in CONTRATISTA_FIELDS :
        resultado_final[campo] = PrimerValor(campo, Len(parciales))

\* chunk 1 said "null" for ruc, chunk 2 supplied it, chunk 3 supplied every
\* field: ruc stays chunk 2's, the rest is chunk 3's
C4_Witness ==
    /\ Len(parciales) = 3
    /\ parciales[1]["ruc"] = "null"
    /\ parciales[2]["ruc"] = "V2"
    /\ parciales[3]["ruc"] = "V3"
    /\ resultado_final["ruc"] = "V2"
    /\ resultado_final["mail"] = "V3"

(***************************************************************************)
(* C5 as stated: whatever the kind of failure of a chunk's generation      *)
(* requests, llm() completes (it never raises because of a chunk).         *)
(***************************************************************************)
C5_NoChunkFailureRaises == llm_pc # "raised"

(***************************************************************************)
(* C5 as amended: when a chunk's requests fail with an empty response, a   *)
(* rate-limit/quota error or a timeout/connection/network error (or the    *)
(* response is blocked or unreadable), llm() goes through every chunk and  *)
(* returns the validated merge of the other chunks' results; llm() raises  *)
(* only for a request that failed with another kind of exception.          *)
(***************************************************************************)
C5_DegradableFailureKeepsOthers ==
    /\ llm_pc = "raised" => ultimo = "otro_error"
    /\ llm_pc = "returned" =>
        /\ Len(parciales) = total_chunks
        /\ \A campo \in CONTRATISTA_FIELDS :
            LET otros == Suplen(campo, total_chunks) \ fallidos
            IN  resultado[campo] =
                    IF otros = {} THEN None
                    ELSE ValidarCampo(parciales[MinOf(otros)][campo])

\* chunk 2 of 3 was given up on; ruc comes from chunk 1, mail from chunk 3
C5_Witness ==
    /\ llm_pc = "returned"
    /\ total_chunks = 3
    /\ fallidos = {2}
    /\ resultado["ruc"] = "V1"
    /\ resultado["mail"] = "V3"

(***************************************************************************)
(* C6: a chunk whose requests keep failing with an empty response, a       *)
(* rate-limit/quota error or a timeout/connection/network error gets 3     *)
(* generation requests in all; llm_chunk then returns all six fields       *)
(* absent and does not raise.                                              *)
(***************************************************************************)
C6_ThreeRequestsThenAllAbsent ==
    /\ n_pedidos <= 3
    /\ ultimo \in FallosReintentables =>
        /\ llm_pc # "raised"
        /\ llm_pc = "fusionar" =>
            /\ n_pedidos = 3
            /\ resultado_parcial = AllNone

C6_Witness ==
    /\ llm_pc = "fusionar"
    /\ ultimo = "rate_limit"
    /\ n_pedidos = 3
    /\ chunk_num = 2
    /\ resultado_parcial = AllNone

(***************************************************************************)
(* C7: within one llm() call the chunks are requested in order 1..N: a     *)
(* request for a chunk is in flight only when every earlier chunk's result *)
(* has been merged and no later chunk has been asked for, and no two       *)
(* requests are in flight at once.                                         *)
(***************************************************************************)
C7_ChunksRequestedInOrder ==
    /\ Cardinality(en_vuelo) <= 1
    /\ \A k \in en_vuelo : k = Len(parciales) + 1 /\ k = chunk_num

C7_Witness ==
    /\ en_vuelo = {3}
    /\ Len(parciales) = 2
    /\ llm_pc = "espera"

(***************************************************************************)
(* C9: the Normalizer is idempotent: normalizing an already normalized     *)
(* text (as pre_filtro does with the full_text it gets from                *)
(* generar_candidatos_contratista) leaves it unchanged.                    *)
(***************************************************************************)
C9_NormalizerIdempotent ==
    nz_pc = "texto_norm" => texto_norm = full_text

\* a text the first pass really changed: the carriage return is removed,
\* which joins three newlines into a run that is collapsed to two, and the
\* blank run " \t" becomes one space
C9_Witness ==
    /\ nz_pc = "texto_norm"
    /\ contenido = <<NL, CR, NL, NL, SP, TAB>>
    /\ full_text = <<NL, NL, SP>>
    /\ texto_norm = full_text

(***************************************************************************)
(* C8: dividir_en_chunks(text, n) returns ceil(len(text)/n) chunks whose   *)
(* concatenation is text; all chunks but the last have n characters, the   *)
(* last has 1..n; llm() calls it with n = 15000, so a 40,000-character     *)
(* text gives 3 chunks.                                                    *)
(***************************************************************************)
RECURSIVE Concat(_)
Concat(ss) == IF ss = <<>> THEN <<>> ELSE Head(ss) \o Concat(Tail(ss))

CeilDiv(a, b) == (a + b - 1) \div b

C1_NoTaskCreatesRow == [][DOMAIN tabla' = DOMAIN tabla]_vars

\* C1, amended: no step of update_postgres (the only task of
\* extract_contratista_etl that writes the table) creates or removes a row:
\* the set of process codes in the table is the same after the step.  The
\* insercion task of procesar_txt_cursor_llm is what creates rows.
C1_UpdatePostgresCreatesNoRow ==
    [][NextUpdatePostgres => DOMAIN tabla' = DOMAIN tabla]_vars

\* a task has updated its row while another process code has no row
C1_Witness ==
    \E t \in Tareas :
        /\ up_pc[t] = "returned"
        /\ update_status[t] = "success"
        /\ n_updates[t] = 1
        /\ \E u \in Tareas :
            /\ update_status[u] = "skipped"
            /\ file_data[u].codigo_proceso \notin DOMAIN tabla

\* C2: when the existence check of update_postgres finds no row for the
\* process code, the task returns update_status "skipped" (it does not
\* raise), it has executed no UPDATE, and the table is as it was.
C2_MissingRowIsSkipped ==
    [][\A t \in Tareas :
        ( /\ up_pc[t] = "existe"
          /\ up_pc'[t] \notin {"existe", "raised"}
          /\ file_data[t].codigo_proceso \notin DOMAIN tabla )
        => ( /\ up_pc'[t] = "returned"
             /\ update_status'[t] = "skipped"
             /\ n_updates'[t] = 0
             /\ tabla' = tabla )]_vars

\* a task was skipped for a code without a row, in a table that has rows
C2_Witness ==
    \E t \in Tareas :
        /\ up_pc[t] = "returned"
        /\ update_status[t] = "skipped"
        /\ update_reason[t] = "Registro no existe en BD"
        /\ n_updates[t] = 0
        /\ file_data[t].codigo_proceso \notin DOMAIN tabla
        /\ DOMAIN tabla # {}

Blank(v) == v \in {"", "  "}

\* C3: the UPDATE of update_postgres names a contractor column only when
\* the extraction result for that field is neither None nor blank, and a
\* column whose field is None or blank holds after the UPDATE the value the
\* row held before it; no contractor column changes unless it is named.
C3_OnlyNonBlankFieldsWritten ==
    [][\A t \in Tareas :
        (up_pc[t] = "update" /\ up_pc'[t] = "returned")
        => LET codigo == file_data[t].codigo_proceso
               datos == file_data[t].contratista_data
           IN  \A campo \in CONTRATISTA_FIELDS :
                /\ campo \in DOMAIN set_clauses[t]
                     => (datos[campo] # None /\ ~Blank(datos[campo]))
                /\ (codigo \in DOMAIN tabla /\ tabla'[codigo][campo] # tabla[codigo][campo])
                     => campo \in DOMAIN set_clauses[t]
                /\ (codigo \in DOMAIN tabla /\ (datos[campo] = None \/ Blank(datos[campo])))
                     => tabla'[codigo][campo] = tabla[codigo][campo]]_vars

\* an UPDATE wrote the ruc it was given and left the blank, empty and
\* absent fields with the values the row held
C3_Witness ==
    \E t \in Tareas :
        /\ up_pc[t] = "returned"
        /\ update_status[t] = "success"
        /\ file_data[t].contratista_data["telefono"] = "  "
        /\ file_data[t].contratista_data["mail"] = ""
        /\ file_data[t].contratista_data["domicilio"] = None
        /\ LET fila == tabla[file_data[t].codigo_proceso]
           IN  /\ fila["ruc"] = "0990011223001"
               /\ fila["telefono"] = "viejo"
               /\ fila["mail"] = "viejo"
               /\ fila["domicilio"] = "viejo"

\* C12: whatever the input, a value normalize_phone returns is a string of
\* digits that is 09 and 8 more digits, or 0, a digit from 2 to 7 and 7 more
\* digits; the telefono of a result of llm() has one of the two shapes too.
C12_PhoneHasOneOfTwoShapes ==
    (val_pc = "validado" /\ val_campo \in {"normalize_phone", "telefono"}
        /\ val_resultado.some)
    => LET v == val_resultado.v
       IN  /\ \A i \in 1..Len(v) : v[i] \in Digitos
           /\ \/ Len(v) = 10 /\ v[1] = "0" /\ v[2] = "9"
              \/ Len(v) = 9 /\ v[1] = "0" /\ v[2] \in {"2", "3", "4", "5", "6", "7"}

\* llm() was given a landline and a mobile number and kept the mobile one
C12_Witness ==
    /\ val_pc = "validado"
    /\ val_campo = "telefono"
    /\ val_dato = Texto(<<"0", "2", "2", "3", "4", "5", "6", "7", "8", "/", "0", "9", "9", "1", "2", "3", "4", "5", "6", "7">>)
    /\ val_resultado = Texto(<<"0", "9", "9", "1", "2", "3", "4", "5", "6", "7">>)

\* C13: a ruc that llm() returns is made of digits only, is 10 to 13 long
\* and is not one digit repeated, whichever digit from 0 to 9 it is; the
\* candidate 0000000000000 gives an absent ruc.
C13_RucIsNoRepeatedDigit ==
    (val_pc = "validado" /\ val_campo = "ruc")
    => /\ val_resultado.some
          => LET v == val_resultado.v
             IN  /\ \A i \in 1..Len(v) : v[i] \in Digitos
                 /\ Len(v) >= 10
                 /\ Len(v) <= 13
                 /\ ~ \E d \in Digitos : \A i \in 1..Len(v) : v[i] = d
       /\ val_dato = Texto(<<"0", "0", "0", "0", "0", "0", "0", "0", "0", "0", "0", "0", "0">>) => ~val_resultado.some

\* the domain of an address: what follows its last @
DominioDe(t) ==
    IF \A i \in 1..Len(t) : t[i] # "@" THEN <<>>
    ELSE Desde(t, 1 + CHOOSE i \in 1..Len(t) :
                        t[i] = "@" /\ \A j \in (i + 1)..Len(t) : t[j] # "@")
\* a domain of the State: it ends in .gob.ec or .edu.ec, or it is the domain
\* of a municipality, a GAD, a prefecture or a ministry
DominioDelEstado(dom) ==
    \/ TerminaEn(dom, <<".", "g", "o", "b", ".", "e", "c">>)
    \/ TerminaEn(dom, <<".", "e", "d", "u", ".", "e", "c">>)
    \/ dom \in {<<"q", "u", "i", "t", "o", ".", "g", "o", "b", ".", "e", "c">>, <<"g", "u", "a", "y", "a", "q", "u", "i", "l", ".", "g", "o", "b", ".", "e", "c">>, <<"a", "m", "b", "a", "t", "o", ".", "g", "o", "b", ".", "e", "c">>,
                <<"c", "n", "e", ".", "g", "o", "b", ".", "e", "c">>, <<"e", "d", "u", "c", "a", "c", "i", "o", "n", ".", "g", "o", "b", ".", "e", "c">>, <<"s", "a", "l", "u", "d", ".", "g", "o", "b", ".", "e", "c">>}
    \/ EmpiezaCon(dom, <<"m", "u", "n", "i", "c", "i", "p", "i", "o", ".">>)
    \/ EmpiezaCon(dom, <<"g", "a", "d", ".">>)
    \/ EmpiezaCon(dom, <<"p", "r", "e", "f", "e", "c", "t", "u", "r", "a", ".">>)
    \/ EmpiezaCon(dom, <<"m", "i", "n", "i", "s", "t", "e", "r", "i", "o", ".">>)

\* C14: when the mail candidate (without regard to case and to the blanks
\* around it) has a domain of the State, the mail of the result of llm() is
\* absent; a mail that llm() returns never has such a domain.
C14_NoGovernmentMail ==
    (val_pc = "validado" /\ val_campo = "mail")
    => /\ ( /\ val_dato.some
             /\ DominioDelEstado(DominioDe(StripTexto(LowerTexto(val_dato.v)))) )
          => ~val_resultado.some
       /\ val_resultado.some => ~DominioDelEstado(DominioDe(val_resultado.v))

\* the address of a municipality's secretary was the candidate
C14_Witness ==
    /\ val_pc = "validado"
    /\ val_campo = "mail"
    /\ val_dato = Texto(<<"S", "e", "c", "r", "e", "t", "a", "r", "i", "a", "@", "q", "u", "i", "t", "o", ".", "g", "o", "b", ".", "e", "c">>)
    /\ ~val_resultado.some

\* C19: a response with the content-safety finish reason makes llm_chunk
\* return the all-absent result at once, without another request and without
\* raising, and llm() merges it and goes on with the next chunk (or with the
\* final validation after the last one); a response cut by MAX_TOKENS is
\* read and parsed like a complete one.
C19_SafetyBlockIsNoData ==
    [][/\ (llm_pc = "espera" /\ ultimo' = "safety")
          => /\ llm_pc' = "fusionar"
             /\ resultado_parcial' = AllNone
             /\ n_pedidos' = n_pedidos
             /\ intento' = intento
       /\ (llm_pc = "fusionar" /\ ultimo = "safety" /\ llm_pc' # "fusionar")
          => /\ llm_pc' = (IF chunk_num = total_chunks THEN "validar" ELSE "chunk")
             /\ chunk_num' = chunk_num + 1
             /\ resultado_final' = resultado_final
       /\ (llm_pc = "espera" /\ ultimo' = "max_tokens")
          => /\ llm_pc' = "fusionar"
             /\ resultado_parcial' \in Respuestas(chunk_num)
             /\ chunk_num \notin fallidos']_vars

\* the second of three chunks was blocked on its first request; what the
\* first chunk gave is still in the accumulator and a chunk remains
C19_Witness ==
    /\ llm_pc = "fusionar"
    /\ ultimo = "safety"
    /\ chunk_num = 2
    /\ total_chunks = 3
    /\ n_pedidos = 1
    /\ resultado_parcial = AllNone
    /\ resultado_final # AllNone

\* C15 as stated: on every path of filter_processed, each entry returned has
\* a code that has a row in the table, and that row has neither razon_social
\* nor ruc.
C15_EveryPathReturnsOnlyPending ==
    fp_pc = "returned"
    => \A i \in 1..Len(archivos_pendientes) :
          LET codigo == archivos_pendientes[i].codigo_proceso
          IN  /\ codigo \in DOMAIN tabla
              /\ esta_vacio(tabla[codigo]["razon_social"])
              /\ esta_vacio(tabla[codigo]["ruc"])

\* C15, amended: when the batch query answers, each entry returned has a
\* code that has a row in the table with razon_social and ruc both empty;
\* when the connection or the query fails, filter_processed returns one
\* entry for every code among the files, whatever the table holds.  Either
\* way at most BATCH_SIZE entries are returned.
C15_OnlyPendingUnlessQueryFails ==
    fp_pc = "returned"
    => /\ Len(archivos_pendientes) <= batch_size
       /\ ~fp_excepcion
          => \A i \in 1..Len(archivos_pendientes) :
                LET codigo == archivos_pendientes[i].codigo_proceso
                IN  /\ codigo \in DOMAIN tabla
                    /\ tabla[codigo]["razon_social"] \in {None, "", "  "}
                    /\ tabla[codigo]["ruc"] \in {None, "", "  "}
       /\ fp_excepcion
          => \A j \in 1..Len(file_paths) :
                \/ Len(archivos_pendientes) = batch_size
                \/ \E i \in 1..Len(archivos_pendientes) :
                      archivos_pendientes[i].codigo_proceso = file_paths[j].codigo_proceso

\* the query answered: of three codes among the files one has no row, one
\* has a row with a name but no ruc, and the third, whose row has only blank
\* strings, is the one returned
C15_Witness ==
    /\ fp_pc = "returned"
    /\ ~fp_excepcion
    /\ Len(file_paths) = 4
    /\ DOMAIN tabla = Codigos
    /\ tabla["SIE-002"]["razon_social"] = "viejo"
    /\ tabla["SIE-002"]["ruc"] = None
    /\ tabla["LICO-001"]["razon_social"] = "  "
    /\ Len(archivos_pendientes) = 1
    /\ archivos_pendientes[1].file_path = "2024/LICO-001.txt"

\* C21: while the matches are collected, the clamped window of every match
\* found so far lies inside a block of bloques_encontrados; and in the final
\* span list, before the cut at 12,000 characters, the window of every match
\* lies inside exactly one span.
C21_EveryWindowInExactlyOneSpan ==
    /\ pf_pc \in {"buscar", "filtrado"}
       => \A h \in pf_hallados :
             \E k \in 1..Len(bloques_encontrados) :
                /\ bloques_encontrados[k][1] <= Max(0, h[2] - patrones_clave[h[1]].antes)
                /\ Min(pf_len, h[2] + patrones_clave[h[1]].largo + patrones_clave[h[1]].despues)
                      <= bloques_encontrados[k][2]
    /\ pf_pc = "filtrado"
       => \A h \in pf_hallados :
             Cardinality({k \in 1..Len(bloques_fusionados) :
                /\ bloques_fusionados[k][1] <= Max(0, h[2] - patrones_clave[h[1]].antes)
                /\ Min(pf_len, h[2] + patrones_clave[h[1]].largo + patrones_clave[h[1]].despues)
                      <= bloques_fusionados[k][2]}) = 1

\* four matches gave two spans; a later match overlapped an earlier block
\* and reached beyond it on the left, and the joined text is over the cap
C21_Witness ==
    /\ pf_pc = "filtrado"
    /\ Cardinality(pf_hallados) >= 4
    /\ Len(bloques_fusionados) = 2
    /\ \E h1 \in pf_hallados : \E h2 \in pf_hallados :
          /\ h1[1] < h2[1]
          /\ h2[2] < h1[2]
          /\ Inicio(h2[1], h2[2]) < Inicio(h1[1], h1[2])
          /\ Fin(h2[1], h2[2], pf_len) >= Inicio(h1[1], h1[2])
    /\ JoinLen(bloques_fusionados) > MAX_FILTRADO

\* C28: on every path of filter_processed, the error path included, no two
\* entries of the list returned have the same process code (so the mapped
\* update_postgres instances of one run target different rows), and a code
\* that several files have is represented by the last of them.
C28_OneEntryPerCode ==
    fp_pc = "returned"
    => /\ \A i \in 1..Len(archivos_pendientes) : \A j \in 1..Len(archivos_pendientes) :
             archivos_pendientes[i].codigo_proceso = archivos_pendientes[j].codigo_proceso
             => i = j
       /\ \A i \in 1..Len(archivos_pendientes) :
             \E k \in 1..Len(file_paths) :
                /\ file_paths[k] = archivos_pendientes[i]
                /\ \A l \in (k + 1)..Len(file_paths) :
                      file_paths[l].codigo_proceso # file_paths[k].codigo_proceso

\* the query failed with two files of the same code among four: three
\* entries are returned, the code's later file among them
C28_Witness ==
    /\ fp_pc = "returned"
    /\ fp_excepcion
    /\ Len(file_paths) = 4
    /\ batch_size = 200
    /\ Len(archivos_pendientes) = 3
    /\ archivos_pendientes[1].file_path = "2024/LICO-001.txt"

\* what the final validation of llm() reads as absent: None, the empty
\* string, null or none in any letter case
LeidoComoAusente(v) == v = None \/ Lower(v) \in {"null", "none", ""}

\* C27: no field of the accumulator of llm() ever holds a value that the
\* final validation reads as absent, other than None itself; and when the
\* chunks before chunk k gave a field only such values and chunk k gives it
\* another value, the accumulator holds chunk k's value.
C27_AbsentValueNeverHeld ==
    \A campo \in CONTRATISTA_FIELDS :
        /\ resultado_final[campo] # None => ~LeidoComoAusente(resultado_final[campo])
        /\ \A k \in 1..Len(parciales) :
              ( /\ ~LeidoComoAusente(parciales[k][campo])
                /\ \A j \in 1..(k - 1) : LeidoComoAusente(parciales[j][campo]) )
              => resultado_final[campo] = parciales[k][campo]

\* the file that stands for a code in the list filter_processed builds
ArchivoDelCodigo(codigo) ==
    LET mapa == codigos_proceso_map(file_paths)
    IN  (CHOOSE i \in 1..Len(mapa) : mapa[i].codigo_proceso = codigo)

\* C29: over the runs of the DAG, when from some run on the batch query
\* answers, then whenever a code has a row with empty razon_social and ruc,
\* the file that stands for the code is, then or later, in the list some
\* run's filter_processed returns.
C29_EveryPendingFileIsHandedOver ==
    (<>[](~fp_excepcion)) =>
    \A codigo \in Codigos :
        ( /\ codigo \in DOMAIN tabla
          /\ sin_datos_criticos(tabla[codigo]) )
        ~> ( codigos_proceso_map(file_paths)[ArchivoDelCodigo(codigo)].file_path
                \in entregados )

\* the conditions of the company-name acceptance rule that C26 lists
CumpleReglaDeEmpresa(v) ==
    LET palabras == Palabras(v)
    IN  /\ Len(v) >= 3
        /\ Len(v) <= 200
        /\ Len(palabras) <= 8
        /\ ~Contiene(v, <<";">>)
        /\ v[1] # ","
        /\ \/ TieneKeyword(v)
           \/ ~(Len(palabras) \in {2, 3} /\ PareceNombrePersonal(palabras))

\* C26 as stated: every razon_social that llm() returns, and every one
\* update_postgres writes, passes the company-name acceptance rule.
C26_EveryNameIsACompanyName ==
    (val_campo = "razon_social" /\ val_pc \in {"validado", "guardado"} /\ val_resultado.some)
        => CumpleReglaDeEmpresa(val_resultado.v)

\* C26: every razon_social that llm() returns, and every one update_postgres
\* writes, is a cleaned text of 3 characters or more (no blank at either
\* end, no run of blanks) that names none of the contracting entity's
\* keywords; what update_postgres writes starts with none of the openers it
\* refuses.  validar_razon_social is applied by neither.
C26_NameIsCleanedAndNoEmployer ==
    (val_campo = "razon_social" /\ val_pc \in {"validado", "guardado"} /\ val_resultado.some)
        => LET v == val_resultado.v
           IN  /\ Len(v) >= 3
               /\ v = StripTexto(ColapsarBlancos(v))
               /\ \A clave \in BAD_EMP : ~Contiene(LowerTexto(v), clave)
               /\ val_pc = "guardado" =>
                     \A apertura \in AperturasRechazadas :
                        ~EmpiezaCon(LowerTexto(v), apertura)

\* a person's name is returned by llm() and written by update_postgres,
\* though validar_razon_social refuses it
C26_Witness ==
    /\ val_campo = "razon_social"
    /\ val_pc = "guardado"
    /\ val_resultado = Texto(<<"J", "u", "a", "n", " ", "M", "o", "r", "a">>)
    /\ ~validar_razon_social(val_resultado)

(***************************************************************************)
(* Claims about generar_candidatos_contratista, checked under SpecReglas   *)
(***************************************************************************)
\* the order the strategies are to be called in
OrdenDeEstrategias ==
    << "strat_clausula_domicilio_el_contratista",
       "strat_nombre_por_la_parte_contratista",
       "strat_datos_contratista",
       "strat_proveedor_bloque" >>

\* C22: the section strategies are called in one fixed order (domicile
\* clause, party/signature name, DATOS DEL CONTRATISTA section, PROVEEDOR
\* block): what has been called is always a prefix of that order; and a
\* strategy is called only while some target field has no candidate.
C22_FixedOrderAndShortCircuit ==
    [][ invocadas' # invocadas =>
          /\ Len(invocadas') <= Len(OrdenDeEstrategias)
          /\ invocadas' = SubSeq(OrdenDeEstrategias, 1, Len(invocadas'))
          /\ ~todos_llenos ]_vars

\* the loop was left after two strategies because every field was filled
C22_Witness ==
    /\ gc_pc = "forzar"
    /\ Len(invocadas) = 2
    /\ todos_llenos

\* an address that needs no replacement
DireccionBuena(value) == value.texto # "" /\ ~value.para_todos /\ value.largo <= 180

\* the step of the extractor that is taken is one that fills candidates in
\* after the labelled fields: the contact slice, a strategy of the loop or
\* the name before "... RUC"
PasoDeRelleno == gc_pc \in {"etiquetas", "estrategias", "forzar"}

\* C23 as stated: no step that fills candidates in changes a field that is
\* not empty unless needs_replace holds for it; a list that is not empty
\* is neither replaced nor extended.
C23_GoodCandidateIsKept ==
    [][ PasoDeRelleno =>
          /\ DireccionBuena(cand_dir) => cand_dir' = cand_dir
          /\ DireccionBuena(cand_dom) => cand_dom' = cand_dom
          /\ (cand_razon.some /\ cand_razon.v # <<>>) => cand_razon' = cand_razon
          /\ cand_mails # <<>> => cand_mails' = cand_mails
          /\ cand_tels # <<>> => cand_tels' = cand_tels ]_vars

\* sequence a is the beginning of sequence b
EsPrefijo(a, b) == Len(a) <= Len(b) /\ SubSeq(b, 1, Len(a)) = a

\* C23 as amended: an address that is not empty, does not hold "Para todos
\* los efectos" and is not over 180 long is changed by no step; the mail
\* and phone lists, once not empty, are changed only by the domicile-clause
\* strategy, which appends what it finds after the entries already there;
\* a name that is not empty is changed by no strategy of the loop, and only
\* by the step that takes the name before "... RUC <13 digits>".
C23_KeptOrExtendedByTheClause ==
    [][ PasoDeRelleno =>
          /\ DireccionBuena(cand_dir) => cand_dir' = cand_dir
          /\ DireccionBuena(cand_dom) => cand_dom' = cand_dom
          /\ (cand_razon.some /\ cand_razon.v # <<>> /\ gc_pc # "forzar")
                => cand_razon' = cand_razon
          /\ cand_mails # <<>> =>
                \/ cand_mails' = cand_mails
                \/ /\ invocadas' = Append(invocadas, "strat_clausula_domicilio_el_contratista")
                   /\ EsPrefijo(cand_mails, cand_mails')
          /\ cand_tels # <<>> =>
                \/ cand_tels' = cand_tels
                \/ /\ invocadas' = Append(invocadas, "strat_clausula_domicilio_el_contratista")
                   /\ EsPrefijo(cand_tels, cand_tels') ]_vars

\* the domicile clause has added a mail after the one of the labelled step,
\* and the address of the labelled step is still there
C23_Witness ==
    /\ invocadas = <<"strat_clausula_domicilio_el_contratista">>
    /\ cand_mails = <<LowerTexto(MailVentas), MailGerencia>>
    /\ cand_dir = DirBuena
    /\ gc_doc.clausula.addr = DirOtra

\* no occurrence of one of the labels comes right after "EL CONTRATISTA:"
SinValorTrasAncla(etiquetas) ==
    \A k \in 2..Len(gc_doc.items) :
        ~(gc_doc.items[k - 1] = Ancla /\ gc_doc.items[k].etiqueta \in etiquetas)

\* item k is the last one with one of the labels
EsUltima(k, etiquetas) ==
    /\ k \in 1..Len(gc_doc.items)
    /\ gc_doc.items[k].etiqueta \in etiquetas
    /\ \A j \in (k + 1)..Len(gc_doc.items) : gc_doc.items[j].etiqueta \notin etiquetas

\* item k is the first one with one of the labels
EsPrimera(k, etiquetas) ==
    /\ k \in 1..Len(gc_doc.items)
    /\ gc_doc.items[k].etiqueta \in etiquetas
    /\ \A j \in 1..(k - 1) : gc_doc.items[j].etiqueta \notin etiquetas

\* C24 as stated: after the labelled step, a field with no value after
\* "EL CONTRATISTA:" has the value of the last occurrence of its label in
\* the block, or none when that value is refused; never an earlier one.
C24_LastOccurrenceWins ==
    gc_pc = "etiquetas" =>
        \A k \in 1..Len(gc_doc.items) :
            /\ (SinValorTrasAncla(EtiquetasDeDireccion) /\ EsUltima(k, EtiquetasDeDireccion))
                  => cand_dir = gc_doc.items[k].dir /\ cand_dom = gc_doc.items[k].dir
            /\ (SinValorTrasAncla({"Correo"}) /\ EsUltima(k, {"Correo"}))
                  => cand_mails \in {<<>>, <<StripTexto(LowerTexto(gc_doc.items[k].v))>>}
            /\ (SinValorTrasAncla({"Telefono"}) /\ EsUltima(k, {"Telefono"}))
                  => cand_tels \in {<<>>, <<Normalizado(gc_doc.items[k].v)>>}

\* C24 as amended: after the labelled step, with no value after
\* "EL CONTRATISTA:", the mail is the one of the last occurrence of the
\* mail label (none when it is an example.com/org/net or a correo@
\* address); the phone is the one of the last occurrence of the phone
\* label when normalize_phone accepts it, and otherwise every phone of the
\* block that normalize_phone accepts; the address and the domicile are
\* those of the first "Domicilio" of the block and, when there is none, of
\* the first "Direccion".
C24_LastMailAndPhoneFirstAddress ==
    gc_pc = "etiquetas" =>
        \A k \in 1..Len(gc_doc.items) :
            /\ (SinValorTrasAncla(EtiquetasDeDireccion) /\ EsPrimera(k, {"Domicilio"}))
                  => cand_dir = gc_doc.items[k].dir /\ cand_dom = gc_doc.items[k].dir
            /\ (/\ SinValorTrasAncla(EtiquetasDeDireccion)
                /\ EsPrimera(k, {"Direccion"})
                /\ \A j \in 1..Len(gc_doc.items) : gc_doc.items[j].etiqueta # "Domicilio")
                  => cand_dir = gc_doc.items[k].dir /\ cand_dom = gc_doc.items[k].dir
            /\ (SinValorTrasAncla({"Correo"}) /\ EsUltima(k, {"Correo"}))
                  => cand_mails =
                        IF MailRechazado(StripTexto(LowerTexto(gc_doc.items[k].v)))
                        THEN <<>>
                        ELSE <<StripTexto(LowerTexto(gc_doc.items[k].v))>>
            /\ (SinValorTrasAncla({"Telefono"}) /\ EsUltima(k, {"Telefono"}))
                  => cand_tels =
                        IF Normalizado(gc_doc.items[k].v) # <<>>
                        THEN <<Normalizado(gc_doc.items[k].v)>>
                        ELSE collect_phones_from_text(gc_doc.items)

\* a block with two labelled mails and no "EL CONTRATISTA:": the second
\* mail is the candidate
C24_Witness ==
    /\ gc_pc = "etiquetas"
    /\ gc_doc.items = <<ConTexto("Correo", MailVentas), ConTexto("Correo", MailGerencia)>>
    /\ cand_mails = <<MailGerencia>>

\* the 13-digit sequence of the block that is the tax-ID candidate
Seleccionada == CHOOSE i \in 1..Len(gc_doc.rucs) : cand_ruc = <<RucsDelBloque[i]>>

\* the scoring step has run on a block with 13-digit sequences
RucElegido == gc_pc \in {"candidatos", "returned"} /\ gc_doc.rucs # <<>>

\* the selected sequence has the highest score, the earliest on ties
MejorPuntuada ==
    /\ \E i \in 1..Len(gc_doc.rucs) : cand_ruc = <<RucsDelBloque[i]>>
    /\ \A j \in 1..Len(gc_doc.rucs) :
          \/ Score(gc_doc.rucs[j]) < Score(gc_doc.rucs[Seleccionada])
          \/ Score(gc_doc.rucs[j]) = Score(gc_doc.rucs[Seleccionada]) /\ Seleccionada <= j

\* C25 as stated: the tax-ID candidate is the 13-digit sequence with the
\* highest context score, the earliest on ties, and its score is not
\* negative.
C25_BestIsNeverNegative ==
    RucElegido => MejorPuntuada /\ Score(gc_doc.rucs[Seleccionada]) >= 0

\* C25 as amended: the tax-ID candidate is the 13-digit sequence with the
\* highest context score, the earliest on ties; its score is negative only
\* when the score of every 13-digit sequence of the block is negative.
C25_BestScoreEarliestFirst ==
    RucElegido =>
        /\ MejorPuntuada
        /\ Score(gc_doc.rucs[Seleccionada]) < 0
              => \A j \in 1..Len(gc_doc.rucs) : Score(gc_doc.rucs[j]) < 0

\* two sequences, both next to words of the contracting entity: the second
\* one, which scores -3 against -5, is the candidate
C25_Witness ==
    /\ gc_pc = "candidatos"
    /\ gc_doc.rucs = << Contexto(FALSE, FALSE, FALSE, TRUE, FALSE),
                        Contexto(FALSE, FALSE, FALSE, FALSE, TRUE) >>
    /\ cand_ruc = <<RucsDelBloque[2]>>

\* C16: every column the SET list of update_postgres names is a column the
\* table has (the set read from information_schema); a field whose column
\* the table lacks is left out of the list, and the UPDATE changes no
\* column the table lacks.
C16_SetNamesOnlyExistingColumns ==
    [][\A t \in Tareas :
        /\ DOMAIN set_clauses'[t] \subseteq available_columns
        /\ \A campo \in CONTRATISTA_FIELDS :
              campo \notin available_columns => campo \notin DOMAIN set_clauses'[t]
        /\ (up_pc[t] = "update" /\ up_pc'[t] = "returned")
             => \A c \in DOMAIN tabla : \A col \in DOMAIN tabla[c] :
                  tabla'[c][col] # tabla[c][col] => col \in available_columns]_vars

\* a task is about to update a table without mail and without date columns
\* with a result that has a mail: the list names the other five fields
C16_Witness ==
    \E t \in Tareas :
        /\ up_pc[t] = "update"
        /\ "mail" \notin available_columns
        /\ file_data[t].contratista_data["mail"] = "ventas@acme.ec"
        /\ DOMAIN set_clauses[t] =
             {"razon_social", "representante", "ruc", "telefono", "domicilio"}

C30_ConnectionClosedOnEveryExit ==
    [][\A t \in Tareas :
        /\ (conn[t] = "open" /\ up_pc'[t] \in {"returned", "raised"})
           => conn'[t] = "closed"
        /\ up_pc'[t] \in {"returned", "raised"} => conn'[t] # "open"]_vars

\* a task whose UPDATE failed ended with its connection closed, after
\* another ended the same way on a missing row
C30_Witness ==
    /\ up_pc["t1"] = "raised"
    /\ excepcion["t1"] = "DatabaseError"
    /\ conn["t1"] = "closed"
    /\ up_pc["t2"] = "returned"
    /\ update_status["t2"] = "skipped"
    /\ conn["t2"] = "closed"

C10_OutputAtMostCap ==
    pf_pc \in {"vacio", "fallback", "filtrado"} => texto_filtrado_len <= 12000

\* the blocks joined are longer than the limit and the result is cut to it
C10_Witness ==
    /\ pf_pc = "filtrado"
    /\ JoinLen(bloques_fusionados) > 12000
    /\ Len(bloques_fusionados) > 1
    /\ texto_filtrado_len = 12000

(***************************************************************************)
(* C11 as stated: for every document the string pre_filtro returns is      *)
(* never empty.                                                            *)
(***************************************************************************)
C11_OutputNeverEmpty ==
    pf_pc \in {"vacio", "fallback", "filtrado"} => texto_filtrado_len > 0

\* C11, amended: for every document whose normalized text is not empty the
\* string pre_filtro returns is not empty, and when no trigger pattern
\* matches it is the first 8,000 characters of the normalized text (all of
\* it when it is shorter); the empty document, and a document of carriage
\* returns only, give the empty string.
C11_NonEmptyTextGivesNonEmptyOutput ==
    /\ (pf_pc \in {"fallback", "filtrado"} /\ pf_len > 0) => texto_filtrado_len > 0
    /\ pf_pc = "fallback" =>
         texto_filtrado_len = (IF pf_len < 8000 THEN pf_len ELSE 8000)
    /\ (pf_pc = "vacio" \/ (pf_pc = "fallback" /\ pf_len = 0)) => texto_filtrado_len = 0

\* no pattern matched a text longer than the slice
C11_Witness ==
    /\ pf_pc = "fallback"
    /\ pf_hallados = {}
    /\ pf_len > 8000
    /\ texto_filtrado_len = 8000

(***************************************************************************)
(* C20: the span list pre_filtro joins is sorted by start offset, its      *)
(* spans do not overlap one another, and two consecutive spans are at      *)
(* least 500 characters apart.                                             *)
(***************************************************************************)
C20_JoinedSpansSortedAndApart ==
    pf_pc = "filtrado" =>
        /\ bloques_fusionados # <<>>
        /\ \A i \in 1..Len(bloques_fusionados) :
              bloques_fusionados[i][1] <= bloques_fusionados[i][2]
        /\ \A i, j \in 1..Len(bloques_fusionados) :
              i < j =>
                /\ bloques_fusionados[i][1] <= bloques_fusionados[j][1]
                /\ bloques_fusionados[i][2] < bloques_fusionados[j][1]
        /\ \A i \in 1..(Len(bloques_fusionados) - 1) :
              bloques_fusionados[i + 1][1] - bloques_fusionados[i][2] >= 500

\* blocks that overlapped and blocks 499 characters apart were fused, and
\* the next span stands exactly 500 characters from the result
C20_Witness ==
    /\ pf_pc = "filtrado"
    /\ Len(bloques_fusionados) = 2
    /\ Len(bloques_encontrados) > 2
    /\ bloques_fusionados[2][1] - bloques_fusionados[1][2] = 500
    /\ \E i, j \in 1..Len(bloques_encontrados) :
          bloques_encontrados[j][1] - bloques_encontrados[i][2] = 499
    /\ \E i, j \in 1..Len(bloques_encontrados) :
          /\ i # j
          /\ bloques_encontrados[i][1] < bloques_encontrados[j][1]
          /\ bloques_encontrados[j][1] < bloques_encontrados[i][2]

====
